---- MODULE Spec2Model ----
(***************************************************************************)
(* ProjectClad: the project / job ("order") / item store and the request   *)
(* handlers that mutate it (save-cart, project actions, approval workflow, *)
(* reordering, member management).  Every handler is one action that takes *)
(* the store from the state before the request to the state after it and   *)
(* records the response in `last`.                                         *)
(***************************************************************************)
EXTENDS Integers, Sequences, FiniteSets, TLC

\* ------------------------------------------------------------------ bounds
MaxProjects == 1      \* project ids are 1..MaxProjects
MaxJobs     == 2      \* job ids are 1..MaxJobs (ids are never reused)
MaxItems    == 3      \* item ids are 1..MaxItems (ids are never reused)
MaxClock    == 2      \* values of new Date()
MaxQuantity == 2      \* quantities that add-mode merging may reach
MaxTokens   == 1      \* share tokens minted

\* ------------------------------------------------------------ input domains
Customers == {"c1", "c2", "c3"}
Shops     == {"s1", "s2"}
Variants  == {"v1", "v2"}
Roles     == {"edit", "view"}

\* The "" sentinel of ApprovalRequest.jobId / itemId, and a missing request
\* parameter (`url.searchParams.get("jobId") || ""`).
NoId == 0
\* approvedAt / approvedByCustomerId are nullable.
NullDate == 0
NullCustomer == "null"

ProjectIds == 1..MaxProjects
JobIds     == 1..MaxJobs
ItemIds    == 1..MaxItems

\* Strings that the code trims, lower-cases or appends to are sequences of
\* tokens; Blank is a run of white space.
Blank == " "
CopySuffix == " (Copy)"

\* String.prototype.toLowerCase, token by token.
LowerTok(t) ==
    CASE t = "Deck"    -> "deck"
      [] t = "Roof"    -> "roof"
      [] t = " (Copy)" -> " (copy)"
      [] OTHER         -> t

toLowerCase(s) == [i \in DOMAIN s |-> LowerTok(s[i])]

\* String.prototype.trim: drops leading and trailing white space.
RECURSIVE TrimLeft(_)
TrimLeft(s) ==
    IF s # <<>> /\ Head(s) = Blank THEN TrimLeft(Tail(s)) ELSE s

RECURSIVE TrimRight(_)
TrimRight(s) ==
    IF s # <<>> /\ s[Len(s)] = Blank THEN TrimRight(SubSeq(s, 1, Len(s) - 1)) ELSE s

trim(s) == TrimRight(TrimLeft(s))

\* Job names a caller may type, and the PO numbers / company names of a
\* save-cart payload (missing fields arrive as the empty string).
JobNameInputs == { <<>>, <<"Deck">>, <<"deck">>, <<Blank, "Roof">> }
PoInputs      == { <<>>, <<"PO-1">>, <<Blank, "PO-2", Blank>> }
CompanyInputs == { <<Blank>>, <<"Acme">> }

\* payload.items of save-cart: raw lines, before normalizeItems.
Line(v, q, p) == [variantId |-> v, quantity |-> q, priceSnapshot |-> p]

CartInputs ==
    { <<>>,
      << Line("v1", 0, 10) >>,
      << Line("v1", 1, 20) >>,
      << Line("v2", 2, 10), Line("", 1, 10) >>,
      << Line("v1", 1, 10), Line("v1", 2, 20) >> }

\* ------------------------------------------------------------------- state
VARIABLES
    projects,      \* Project rows: [id, shop, name, ownerCustomerId, poNumber, companyName]
    members,       \* ProjectMember rows: [projectId, customerId, role]
    jobs,          \* Job rows: [id, projectId, name, isLocked, sortOrder]
    items,         \* JobItem rows: [id, jobId, variantId, quantity, priceSnapshot, sortOrder]
    orderLinks,    \* OrderLink rows, by the id of their job
    shareTokens,   \* ProjectShareToken rows: [token, projectId, role]
    approvals,     \* ApprovalRequest rows
    nextId,        \* the next fresh id of each table
    now,           \* the value the next new Date() yields
    last,          \* the last request handled, with its response
    everApproved,  \* history: the scopes on which an approve call has succeeded
    calls          \* requests handled concurrently: how far each got, what it writes

store == <<projects, members, jobs, items, orderLinks, shareTokens, approvals>>
vars  == <<projects, members, jobs, items, orderLinks, shareTokens, approvals,
           nextId, now, last, everApproved, calls>>

\* ----------------------------------------------------------------- queries
Max(S) == CHOOSE x \in S : \A y \in S : y <= x

ProjectById(p)  == { r \in projects : r.id = p }
JobsOf(p)       == { j \in jobs : j.projectId = p }
ItemsOf(j)      == { i \in items : i.jobId = j }
MembersOf(p)    == { m \in members : m.projectId = p }

\* job.isLocked || Boolean(job.orderLink)
isLocked(job) == job.isLocked \/ job.id \in orderLinks

\* project.members.find((member) => member.customerId === customerId)?.role
memberRole(p, c) ==
    IF \E m \in MembersOf(p) : m.customerId = c
    THEN (CHOOSE m \in MembersOf(p) : m.customerId = c).role
    ELSE "none"

isOwner(project, c)  == project.ownerCustomerId = c
isMember(project, c) ==
    isOwner(project, c) \/ \E m \in MembersOf(project.id) : m.customerId = c
canEdit(project, c)  == isOwner(project, c) \/ memberRole(project.id, c) = "edit"

\* (result._max.sortOrder ?? 0) + 1
getNextJobSortOrder(p) ==
    (IF JobsOf(p) = {} THEN 0 ELSE Max({ j.sortOrder : j \in JobsOf(p) })) + 1

\* The next sortOrder taken from the number of rows (a variant of
\* NextSortOrderIn).
NextSortOrderByCount(itms, j) == Cardinality({ i \in itms : i.jobId = j }) + 1

\* (result._max.sortOrder ?? 0) + 1 over the items of the job
NextSortOrderIn(itms, j) ==
    LET mine == { i \in itms : i.jobId = j }
    IN  (IF mine = {} THEN 0 ELSE Max({ i.sortOrder : i \in mine })) + 1

getNextSortOrder(j) == NextSortOrderIn(items, j)

\* --------------------------------------------------------------- responses
\* The response to the last request handled: its HTTP status, its error /
\* jobError / memberError text, and the fields of its body.  `sent` is the set
\* of customers a notification went to.
Response ==
    [status |-> 0, error |-> "",
     retProjectId |-> NoId, retJobId |-> NoId, copied |-> FALSE,
     alreadyApproved |-> FALSE, sent |-> {}]

NoRequest == Response

Respond(req, status, error) == [req EXCEPT !.status = status, !.error = error]

\* A response that leaves the store as it was.
Reject(req, status, error) ==
    /\ last' = Respond(req, status, error)
    /\ UNCHANGED <<calls, store, nextId, now, everApproved>>

\* Two requests may be under way at once.  A call is idle until its request
\* arrives, checked once the handler has made its reads, and done when its
\* writes are committed; `left` are the writes it has yet to commit.
Calls == {1, 2}
IdleCall == [stage |-> "idle", kind |-> "", job |-> NoId, ids |-> <<>>, left |-> <<>>]
NoCalls == [k \in Calls |-> IdleCall]

\* ------------------------------------------------------------ save-cart
\* items.filter((item) => item && item.variantId && item.quantity > 0)
normalizeItems(raw) ==
    SelectSeq(raw, LAMBDA item : item.variantId # "" /\ item.quantity > 0)

\* The rows of `S` as a sequence, by ascending id (the order rows were made).
RECURSIVE RowSeq(_)
RowSeq(S) ==
    IF S = {} THEN <<>>
    ELSE LET r == CHOOSE x \in S : \A y \in S : x.id <= y.id
         IN  <<r>> \o RowSeq(S \ {r})

\* items: { create: lines.map(...) } / createMany: one JobItem per line, with
\* fresh ids from `first` on; sortOrder[k] is the sortOrder of the k-th line.
NewItems(j, lines, first, sortOrder) ==
    { [id |-> first + k - 1, jobId |-> j,
       variantId |-> lines[k].variantId, quantity |-> lines[k].quantity,
       priceSnapshot |-> lines[k].priceSnapshot, sortOrder |-> sortOrder[k]]
      : k \in DOMAIN lines }

\* The unique index JobItem(jobId, variantId) rejects a batch of lines that
\* names a variant twice.
ViolatesUniqueVariant(lines) ==
    \E a, b \in DOMAIN lines : a # b /\ lines[a].variantId = lines[b].variantId

\* An add-mode loop that creates a row for every line (a variant of AddLines).
RECURSIVE AddLinesAlwaysCreating(_, _, _, _, _)
AddLinesAlwaysCreating(itms, lines, target, nextSortOrder, nextItem) ==
    IF lines = <<>> THEN [items |-> itms, nextItem |-> nextItem]
    ELSE AddLinesAlwaysCreating(
           itms \cup { [id |-> nextItem, jobId |-> target,
                        variantId |-> Head(lines).variantId,
                        quantity |-> Head(lines).quantity,
                        priceSnapshot |-> Head(lines).priceSnapshot,
                        sortOrder |-> nextSortOrder] },
           Tail(lines), target, nextSortOrder + 1, nextItem + 1)

\* The add-mode loop: for each line, update the existing row of the variant or
\* create a row at nextSortOrder.  Yields the item table and the next item id.
RECURSIVE AddLines(_, _, _, _, _)
AddLines(itms, lines, target, nextSortOrder, nextItem) ==
    IF lines = <<>> THEN [items |-> itms, nextItem |-> nextItem]
    ELSE
      LET item     == Head(lines)
          existing == { i \in itms : i.jobId = target /\ i.variantId = item.variantId }
      IN  IF existing # {}
          THEN LET e == CHOOSE i \in existing : TRUE
                   u == [e EXCEPT !.quantity = e.quantity + item.quantity,
                                  !.priceSnapshot = item.priceSnapshot]
               IN  AddLines((itms \ {e}) \cup {u}, Tail(lines), target,
                            nextSortOrder, nextItem)
          ELSE AddLines(itms \cup
                          { [id |-> nextItem, jobId |-> target,
                             variantId |-> item.variantId, quantity |-> item.quantity,
                             priceSnapshot |-> item.priceSnapshot,
                             sortOrder |-> nextSortOrder] },
                        Tail(lines), target, nextSortOrder + 1, nextItem + 1)

\* Checks that let an empty company name through (a variant of SaveCartError).
SaveCartErrorWithoutCompany(lines, poNumber, companyName) ==
    IF lines = <<>> THEN "Cart has no items."
    ELSE IF poNumber = <<>> THEN "PO number is required."
    ELSE ""

\* The checks every mode makes first; "" when they pass.
SaveCartError(lines, poNumber, companyName) ==
    IF lines = <<>> THEN "Cart has no items."
    ELSE IF poNumber = <<>> THEN "PO number is required."
    ELSE IF companyName = <<>> THEN "Company name is required."
    ELSE ""

\* prisma.project.findFirst({ where: { id, shop, OR: [owner, member] } })
VisibleProject(p, shop, c) ==
    { r \in projects : r.id = p /\ r.shop = shop /\ isMember(r, c) }

\* An update that writes the PO number alone (a variant of WithDetails).
WithPoNumberOnly(ps, p, poNumber, companyName) ==
    { IF r.id = p THEN [r EXCEPT !.poNumber = poNumber] ELSE r : r \in ps }

\* prisma.project.update({ data: { poNumber, companyName } })
WithDetails(ps, p, poNumber, companyName) ==
    { IF r.id = p THEN [r EXCEPT !.poNumber = poNumber, !.companyName = companyName]
      ELSE r : r \in ps }

SaveCartNewProject(shop, c, rawPo, rawCompany, projectName, jobName, rawItems) ==
    LET lines       == normalizeItems(rawItems)
        poNumber    == trim(rawPo)
        companyName == trim(rawCompany)
        req == Response
        err == SaveCartError(lines, poNumber, companyName)
    IN  IF err # "" THEN Reject(req, 400, err)
        ELSE IF projectName = <<>> \/ jobName = <<>>
        THEN Reject(req, 400, "Project name and order name are required.")
        ELSE IF ViolatesUniqueVariant(lines)
        THEN Reject(req, 500, "Unique constraint failed")
        ELSE
          /\ nextId.project <= MaxProjects
          /\ nextId.job <= MaxJobs
          /\ nextId.item + Len(lines) - 1 <= MaxItems
          /\ projects' = projects \cup
                { [id |-> nextId.project, shop |-> shop, name |-> projectName,
                   ownerCustomerId |-> c, poNumber |-> poNumber,
                   companyName |-> companyName] }
          /\ members' = members \cup
                { [projectId |-> nextId.project, customerId |-> c, role |-> "edit"] }
          /\ jobs' = jobs \cup
                { [id |-> nextId.job, projectId |-> nextId.project, name |-> jobName,
                   isLocked |-> FALSE, sortOrder |-> 1] }
          /\ items' = items \cup NewItems(nextId.job, lines, nextId.item, [k \in DOMAIN lines |-> k])
          /\ nextId' = [nextId EXCEPT !.project = @ + 1, !.job = @ + 1,
                                      !.item = @ + Len(lines)]
          /\ last' = [Respond(req, 200, "") EXCEPT !.retProjectId = nextId.project,
                                                    !.retJobId = nextId.job]
          /\ UNCHANGED <<calls, orderLinks, shareTokens, approvals, now, everApproved>>

SaveCartExistingProject(shop, c, rawPo, rawCompany, p, jobName, rawItems) ==
    LET lines       == normalizeItems(rawItems)
        poNumber    == trim(rawPo)
        companyName == trim(rawCompany)
        req == Response
        err == SaveCartError(lines, poNumber, companyName)
        found == VisibleProject(p, shop, c)
    IN  IF err # "" THEN Reject(req, 400, err)
        ELSE IF p = NoId \/ jobName = <<>>
        THEN Reject(req, 400, "Select a project and order name.")
        ELSE IF found = {} THEN Reject(req, 404, "Project not found.")
        ELSE IF ~canEdit(CHOOSE r \in found : TRUE, c) THEN Reject(req, 403, "Forbidden.")
        ELSE IF ViolatesUniqueVariant(lines)
        THEN Reject(req, 500, "Unique constraint failed")
        ELSE
          /\ nextId.job <= MaxJobs
          /\ nextId.item + Len(lines) - 1 <= MaxItems
          /\ jobs' = jobs \cup
                { [id |-> nextId.job, projectId |-> p, name |-> jobName,
                   isLocked |-> FALSE, sortOrder |-> getNextJobSortOrder(p)] }
          /\ items' = items \cup NewItems(nextId.job, lines, nextId.item, [k \in DOMAIN lines |-> k])
          /\ projects' = WithDetails(projects, p, poNumber, companyName)
          /\ nextId' = [nextId EXCEPT !.job = @ + 1, !.item = @ + Len(lines)]
          /\ last' = [Respond(req, 200, "") EXCEPT !.retProjectId = p,
                                                    !.retJobId = nextId.job]
          /\ UNCHANGED <<calls, members, orderLinks, shareTokens, approvals, now, everApproved>>

\* A copy that inherits the lock of its original (a variant of CopyOfLocked).
CopyOfLockedKeepingLock(job, copyId) ==
    [id |-> copyId, projectId |-> job.projectId, name |-> job.name \o <<CopySuffix>>,
     isLocked |-> job.isLocked, sortOrder |-> getNextJobSortOrder(job.projectId)]

\* The copy-on-write of a locked job: "<name> (Copy)", unlocked, at the next
\* job sortOrder, with one new item per item of the original.
CopyOfLocked(job, copyId) ==
    [id |-> copyId, projectId |-> job.projectId, name |-> job.name \o <<CopySuffix>>,
     isLocked |-> FALSE, sortOrder |-> getNextJobSortOrder(job.projectId)]

CopiedItems(job, copyId, first) ==
    LET orig == RowSeq(ItemsOf(job.id))
    IN  NewItems(copyId, orig, first, [k \in DOMAIN orig |-> orig[k].sortOrder])

\* approvalRequest.deleteMany({ where: { projectId, jobId, itemId: "" } })
WithoutJobLevelRequest(reqs, p, j) ==
    { a \in reqs : ~(a.projectId = p /\ a.jobId = j /\ a.itemId = NoId) }

SaveCartExistingJob(shop, c, rawPo, rawCompany, p, j, quantityMode, rawItems) ==
    LET lines       == normalizeItems(rawItems)
        poNumber    == trim(rawPo)
        companyName == trim(rawCompany)
        req == Response
        err == SaveCartError(lines, poNumber, companyName)
        found == VisibleProject(p, shop, c)
        foundJob == { r \in jobs : r.id = j /\ r.projectId = p }
    IN  IF err # "" THEN Reject(req, 400, err)
        ELSE IF p = NoId \/ j = NoId
        THEN Reject(req, 400, "Select a project and order.")
        ELSE IF found = {} THEN Reject(req, 404, "Project not found.")
        ELSE IF ~canEdit(CHOOSE r \in found : TRUE, c) THEN Reject(req, 403, "Forbidden.")
        ELSE IF foundJob = {} THEN Reject(req, 404, "Order not found.")
        ELSE
          LET job      == CHOOSE r \in foundJob : TRUE
              locked   == isLocked(job)
              targetJobId == IF locked THEN nextId.job ELSE job.id
              \* after project.update and the copy
              jobs1    == IF locked THEN jobs \cup {CopyOfLocked(job, nextId.job)} ELSE jobs
              items1   == IF locked THEN items \cup CopiedItems(job, nextId.job, nextId.item)
                          ELSE items
              nextItem1 == IF locked THEN nextId.item + Cardinality(ItemsOf(job.id))
                           ELSE nextId.item
              nextJob1 == IF locked THEN nextId.job + 1 ELSE nextId.job
              replaced == { i \in items1 : i.jobId # targetJobId }
                            \cup NewItems(targetJobId, lines, nextItem1, [k \in DOMAIN lines |-> k])
              added    == AddLines(items1, lines, targetJobId,
                                   NextSortOrderIn(items1, targetJobId), nextItem1)
              txFails  == quantityMode = "replace" /\ ViolatesUniqueVariant(lines)
              items2   == IF txFails THEN items1
                          ELSE IF quantityMode = "replace" THEN replaced
                          ELSE added.items
              nextItem2 == IF txFails THEN nextItem1
                           ELSE IF quantityMode = "replace" THEN nextItem1 + Len(lines)
                           ELSE added.nextItem
          IN  /\ nextJob1 - 1 <= MaxJobs
              /\ nextItem2 - 1 <= MaxItems
              /\ \A i \in items2 : i.quantity <= MaxQuantity
              /\ projects' = WithDetails(projects, p, poNumber, companyName)
              /\ jobs' = jobs1
              /\ items' = items2
              /\ nextId' = [nextId EXCEPT !.job = nextJob1, !.item = nextItem2]
              /\ approvals' = IF txFails THEN approvals
                              ELSE WithoutJobLevelRequest(approvals, p, targetJobId)
              /\ last' = IF txFails THEN Respond(req, 500, "Unique constraint failed")
                         ELSE [Respond(req, 200, "") EXCEPT !.retProjectId = p,
                                                            !.retJobId = targetJobId,
                                                            !.copied = locked]
              /\ UNCHANGED <<calls, members, orderLinks, shareTokens, now, everApproved>>

\* ------------------------------------------------- project-actions API (GET)
\* What the handler does before it looks at the intent: a status of 0 lets the
\* request through.
Pass == [status |-> 0, error |-> ""]
Stop(status, error) == [status |-> status, error |-> error]

ProjectInShop(p, shop) == { r \in projects : r.id = p /\ r.shop = shop }

ApiGate(shop, c, p) ==
    IF p = NoId THEN Stop(400, "Project is required")
    ELSE IF ProjectInShop(p, shop) = {} THEN Stop(404, "Project not found")
    ELSE IF ~isMember(CHOOSE r \in ProjectInShop(p, shop) : TRUE, c)
    THEN Stop(403, "Unauthorized")
    ELSE Pass

TheProject(p, shop) == CHOOSE r \in ProjectInShop(p, shop) : TRUE

\* existingNames.some((job) => job.name.toLowerCase() === normalizedName)
hasDuplicate(p, name) ==
    \E job \in JobsOf(p) : toLowerCase(job.name) = toLowerCase(name)

\* prisma.job.create({ data: { projectId, name, sortOrder: nextSortOrder } })
CreateJobRow(req, p, name, okStatus) ==
    /\ nextId.job <= MaxJobs
    /\ jobs' = jobs \cup
          { [id |-> nextId.job, projectId |-> p, name |-> name,
             isLocked |-> FALSE, sortOrder |-> getNextJobSortOrder(p)] }
    /\ nextId' = [nextId EXCEPT !.job = @ + 1]
    /\ last' = [Respond(req, okStatus, "") EXCEPT !.retJobId = nextId.job]
    /\ UNCHANGED <<calls, projects, members, items, orderLinks, shareTokens, approvals,
                   now, everApproved>>

CreateJobApi(shop, c, p, jobName) ==
    LET req  == Response
        gate == ApiGate(shop, c, p)
        name == trim(jobName)
    IN  IF gate # Pass THEN Reject(req, gate.status, gate.error)
        ELSE IF ~canEdit(TheProject(p, shop), c) THEN Reject(req, 403, "Forbidden")
        ELSE IF name = <<>> THEN Reject(req, 400, "Order name is required")
        ELSE IF hasDuplicate(p, name) THEN Reject(req, 400, "This order already exists")
        ELSE CreateJobRow(req, p, name, 200)

\* prisma.job.delete: the job's items and its OrderLink go with it (ON DELETE
\* CASCADE); ApprovalRequest rows reference the project only and stay.
DeleteJobRow(req, j, okStatus) ==
    /\ jobs' = { r \in jobs : r.id # j }
    /\ items' = { i \in items : i.jobId # j }
    /\ orderLinks' = orderLinks \ {j}
    /\ last' = Respond(req, okStatus, "")
    /\ UNCHANGED <<calls, projects, members, shareTokens, approvals, nextId, now, everApproved>>

\* A delete-job that does not look at the lock (a variant of DeleteJobIn).
DeleteJobInUnchecked(req, p, j, okStatus) ==
    LET found == { r \in jobs : r.id = j /\ r.projectId = p }
    IN  IF found = {} THEN Reject(req, 404, "Order not found")
        ELSE DeleteJobRow(req, j, okStatus)

\* The part of delete-job all entry points share: find the job in the project,
\* refuse a locked job, delete.
DeleteJobIn(req, p, j, okStatus) ==
    LET found == { r \in jobs : r.id = j /\ r.projectId = p }
    IN  IF found = {} THEN Reject(req, 404, "Order not found")
        ELSE IF isLocked(CHOOSE r \in found : TRUE) THEN Reject(req, 403, "Order is locked")
        ELSE DeleteJobRow(req, j, okStatus)

DeleteJobApi(shop, c, p, j) ==
    LET req  == Response
        gate == ApiGate(shop, c, p)
    IN  IF gate # Pass THEN Reject(req, gate.status, gate.error)
        ELSE IF ~canEdit(TheProject(p, shop), c) THEN Reject(req, 403, "Forbidden")
        ELSE IF j = NoId THEN Reject(req, 400, "Order is required")
        ELSE DeleteJobIn(req, p, j, 200)

\* The part of delete-item the customer entry points share: find the item,
\* check its job is in the project and unlocked, delete the item and then the
\* job-level approval request of its job.
DeleteItemIn(req, p, i, okStatus) ==
    LET found == { r \in items : r.id = i }
        item  == CHOOSE r \in found : TRUE
        job   == CHOOSE r \in jobs : r.id = item.jobId
    IN  IF found = {} \/ job.projectId # p THEN Reject(req, 404, "Item not found")
        ELSE IF isLocked(job) THEN Reject(req, 403, "Order is locked")
        ELSE /\ items' = items \ {item}
             /\ approvals' = WithoutJobLevelRequest(approvals, p, item.jobId)
             /\ last' = Respond(req, okStatus, "")
             /\ UNCHANGED <<calls, projects, members, jobs, orderLinks, shareTokens,
                            nextId, now, everApproved>>

DeleteItemApi(shop, c, p, i) ==
    LET req  == Response
        gate == ApiGate(shop, c, p)
    IN  IF gate # Pass THEN Reject(req, gate.status, gate.error)
        ELSE IF ~canEdit(TheProject(p, shop), c) THEN Reject(req, 403, "Forbidden")
        ELSE IF i = NoId THEN Reject(req, 400, "Item is required")
        ELSE DeleteItemIn(req, p, i, 200)

\* crypto.randomBytes(16): a token no earlier call has drawn.
\* role: role === "edit" ? "edit" : "view"
MintToken(req, p, role, okStatus) ==
    /\ nextId.token <= MaxTokens
    /\ shareTokens' = shareTokens \cup
          { [token |-> nextId.token, projectId |-> p,
             role |-> IF role = "edit" THEN "edit" ELSE "view"] }
    /\ nextId' = [nextId EXCEPT !.token = @ + 1]
    /\ last' = Respond(req, okStatus, "")
    /\ UNCHANGED <<calls, projects, members, jobs, items, orderLinks, approvals,
                   now, everApproved>>

ShareProjectApi(shop, c, p, role) ==
    LET req  == Response
        gate == ApiGate(shop, c, p)
    IN  IF gate # Pass THEN Reject(req, gate.status, gate.error)
        ELSE IF ~canEdit(TheProject(p, shop), c) THEN Reject(req, 403, "Forbidden")
        ELSE MintToken(req, p, role, 200)

\* ------------------------------------------------------- member management
\* findCustomerIdByEmail(shop, email): the member directory answers with a
\* customer id, with null, or throws.
LookupResults == Customers \cup {"null", "throws"}
EmailInputs   == { <<>>, <<"a@example.com">> }

\* An upsert that leaves the role of a row it finds (a variant of
\* UpsertMember).
UpsertMemberKeepingRole(ms, p, c, role) ==
    IF \E m \in ms : m.projectId = p /\ m.customerId = c THEN ms
    ELSE ms \cup { [projectId |-> p, customerId |-> c, role |-> role] }

\* prisma.projectMember.upsert on (projectId, customerId)
UpsertMember(ms, p, c, role) ==
    { m \in ms : ~(m.projectId = p /\ m.customerId = c) }
      \cup { [projectId |-> p, customerId |-> c, role |-> role] }

\* prisma.projectMember.deleteMany({ where: { projectId, customerId } })
WithoutMember(ms, p, c) == { m \in ms : ~(m.projectId = p /\ m.customerId = c) }

SetMembers(req, ms, okStatus) ==
    /\ members' = ms
    /\ last' = Respond(req, okStatus, "")
    /\ UNCHANGED <<calls, projects, jobs, items, orderLinks, shareTokens, approvals,
                   nextId, now, everApproved>>

\* Redeeming a share link: projectShareToken.findFirst({ where: { token,
\* project: { shop } } }), then projectMember.upsert with the token's role and
\* a redirect to the project.
RedeemShareToken(shop, c, token) ==
    LET req   == Response
        found == { t \in shareTokens :
                     /\ t.token = token
                     /\ \E r \in projects : r.id = t.projectId /\ r.shop = shop }
        shareToken == CHOOSE t \in found : TRUE
    IN  IF found = {} THEN Reject(req, 404, "Share link not found")
        ELSE SetMembers(req, UpsertMember(members, shareToken.projectId, c, shareToken.role),
                        302)

\* add-member after the owner check, as the project-actions API and the
\* members API do it.
AddMemberChecked(req, project, email, role, lookup) ==
    IF trim(email) = <<>> THEN Reject(req, 400, "Email is required")
    ELSE IF lookup = "throws" THEN Reject(req, 400, "Customer lookup failed")
    ELSE IF lookup = "null" THEN Reject(req, 404, "No customer found with that email")
    ELSE IF lookup = project.ownerCustomerId
    THEN Reject(req, 400, "This customer already owns the project")
    ELSE SetMembers(req,
                    UpsertMember(members, project.id, lookup,
                                 IF role = "edit" THEN "edit" ELSE "view"),
                    200)

AddMemberApi(shop, c, p, email, role, lookup) ==
    LET req  == Response
        gate == ApiGate(shop, c, p)
    IN  IF gate # Pass THEN Reject(req, gate.status, gate.error)
        ELSE IF ~isOwner(TheProject(p, shop), c)
        THEN Reject(req, 403, "Only the project owner can add members")
        ELSE AddMemberChecked(req, TheProject(p, shop), email, role, lookup)

RemoveMemberChecked(req, project, memberCustomerId) ==
    IF memberCustomerId = "" \/ memberCustomerId = project.ownerCustomerId
    THEN Reject(req, 400, "Invalid member")
    ELSE SetMembers(req, WithoutMember(members, project.id, memberCustomerId), 200)

RemoveMemberApi(shop, c, p, memberCustomerId) ==
    LET req  == Response
        gate == ApiGate(shop, c, p)
    IN  IF gate # Pass THEN Reject(req, gate.status, gate.error)
        ELSE IF ~isOwner(TheProject(p, shop), c)
        THEN Reject(req, 403, "Only the project owner can remove members")
        ELSE RemoveMemberChecked(req, TheProject(p, shop), memberCustomerId)

\* apps.project-clad.api.members: the owner check comes before the intent.
MembersApiGate(shop, c, p) ==
    IF p = NoId THEN Stop(400, "Project is required")
    ELSE IF ProjectInShop(p, shop) = {} THEN Stop(404, "Project not found")
    ELSE IF ~isOwner(TheProject(p, shop), c)
    THEN Stop(403, "Only the project owner can manage members")
    ELSE Pass

AddMemberMembersApi(shop, c, p, email, role, lookup) ==
    LET req  == Response
        gate == MembersApiGate(shop, c, p)
    IN  IF gate # Pass THEN Reject(req, gate.status, gate.error)
        ELSE AddMemberChecked(req, TheProject(p, shop), email, role, lookup)

RemoveMemberMembersApi(shop, c, p, memberCustomerId) ==
    LET req  == Response
        gate == MembersApiGate(shop, c, p)
    IN  IF gate # Pass THEN Reject(req, gate.status, gate.error)
        ELSE RemoveMemberChecked(req, TheProject(p, shop), memberCustomerId)

\* ------------------------------------------- project page (form requests)
\* Both project pages (project?id= and projects/$projectId) start alike.
PageGate(shop, c, p) ==
    IF p = NoId \/ ProjectInShop(p, shop) = {} THEN Stop(404, "Project not found")
    ELSE IF ~isMember(TheProject(p, shop), c) THEN Stop(403, "Unauthorized")
    ELSE Pass

\* The JSON requests of the project pages check canEdit only.
JsonGate(shop, c, p) ==
    IF p = NoId \/ ProjectInShop(p, shop) = {} THEN Stop(404, "Project not found")
    ELSE IF ~canEdit(TheProject(p, shop), c) THEN Stop(403, "Forbidden")
    ELSE Pass

\* A gate that lets every member through (a variant of EditGate).
EditGateForMembers(shop, c, p) == PageGate(shop, c, p)

\* A form intent that requires canEdit: the gate, then the Forbidden check.
EditGate(shop, c, p) ==
    IF PageGate(shop, c, p) # Pass THEN PageGate(shop, c, p)
    ELSE IF ~canEdit(TheProject(p, shop), c) THEN Stop(403, "Forbidden")
    ELSE Pass

CreateJobPage(shop, c, p, jobName) ==
    LET req  == Response
        gate == EditGate(shop, c, p)
        name == trim(jobName)
    IN  IF gate # Pass THEN Reject(req, gate.status, gate.error)
        ELSE IF name = <<>> THEN Reject(req, 400, "Order name is required")
        ELSE IF hasDuplicate(p, name) THEN Reject(req, 400, "This order already exists")
        ELSE CreateJobRow(req, p, name, 302)

\* projects/$projectId: no look at the names the project already has.
CreateJobLegacy(shop, c, p, jobName) ==
    LET req  == Response
        gate == EditGate(shop, c, p)
        name == trim(jobName)
    IN  IF gate # Pass THEN Reject(req, gate.status, gate.error)
        ELSE IF name = <<>> THEN Reject(req, 302, "")
        ELSE CreateJobRow(req, p, name, 302)

DeleteJobForm(shop, c, p, j) ==
    LET req  == Response
        gate == EditGate(shop, c, p)
    IN  IF gate # Pass THEN Reject(req, gate.status, gate.error)
        ELSE IF j = NoId THEN Reject(req, 302, "")
        ELSE DeleteJobIn(req, p, j, 302)

DeleteJobPage(shop, c, p, j)   == DeleteJobForm(shop, c, p, j)
DeleteJobLegacy(shop, c, p, j) == DeleteJobForm(shop, c, p, j)

DeleteItemForm(shop, c, p, i) ==
    LET req  == Response
        gate == EditGate(shop, c, p)
    IN  IF gate # Pass THEN Reject(req, gate.status, gate.error)
        ELSE IF i = NoId THEN Reject(req, 302, "")
        ELSE DeleteItemIn(req, p, i, 302)

DeleteItemPage(shop, c, p, i)   == DeleteItemForm(shop, c, p, i)
DeleteItemLegacy(shop, c, p, i) == DeleteItemForm(shop, c, p, i)

\* move-job: prisma.job.update({ data: { projectId: targetProjectId } }); the
\* foreign key Job.projectId rejects a target that is no project.
MoveJobForm(shop, c, p, j, targetProjectId) ==
    LET req   == Response
        gate  == EditGate(shop, c, p)
        found == { r \in jobs : r.id = j /\ r.projectId = p }
    IN  IF gate # Pass THEN Reject(req, gate.status, gate.error)
        ELSE IF j = NoId \/ targetProjectId = NoId \/ found = {} THEN Reject(req, 302, "")
        ELSE IF ProjectById(targetProjectId) = {}
        THEN Reject(req, 500, "Foreign key constraint failed")
        ELSE /\ jobs' = { IF r.id = j THEN [r EXCEPT !.projectId = targetProjectId] ELSE r
                          : r \in jobs }
             /\ last' = Respond(req, 302, "")
             /\ UNCHANGED <<calls, projects, members, items, orderLinks, shareTokens,
                            approvals, nextId, now, everApproved>>

MoveJobPage(shop, c, p, j, t)   == MoveJobForm(shop, c, p, j, t)
MoveJobLegacy(shop, c, p, j, t) == MoveJobForm(shop, c, p, j, t)

\* copy-job: a new unlocked job "<name> (Copy)" in the target project with one
\* item per item of the source; neither sortOrder is given, so both take the
\* column default.
DefaultSortOrder == 0

\* A copy that takes the items of the source along instead of copying them (a
\* variant of CopyJobForm).
CopyJobFormTakingItems(shop, c, p, j, targetProjectId) ==
    LET req   == Response
        gate  == EditGate(shop, c, p)
        found == { r \in jobs : r.id = j /\ r.projectId = p }
        job   == CHOOSE r \in found : TRUE
    IN  IF gate # Pass THEN Reject(req, gate.status, gate.error)
        ELSE IF j = NoId \/ targetProjectId = NoId \/ found = {} THEN Reject(req, 302, "")
        ELSE IF ProjectById(targetProjectId) = {}
        THEN Reject(req, 500, "Foreign key constraint failed")
        ELSE /\ nextId.job <= MaxJobs
             /\ jobs' = jobs \cup
                   { [id |-> nextId.job, projectId |-> targetProjectId,
                      name |-> job.name \o <<CopySuffix>>, isLocked |-> FALSE,
                      sortOrder |-> DefaultSortOrder] }
             /\ items' = { IF i.jobId = j THEN [i EXCEPT !.jobId = nextId.job] ELSE i
                           : i \in items }
             /\ nextId' = [nextId EXCEPT !.job = @ + 1]
             /\ last' = [Respond(req, 302, "") EXCEPT !.retJobId = nextId.job]
             /\ UNCHANGED <<calls, projects, members, orderLinks, shareTokens, approvals,
                            now, everApproved>>

CopyJobForm(shop, c, p, j, targetProjectId) ==
    LET req   == Response
        gate  == EditGate(shop, c, p)
        found == { r \in jobs : r.id = j /\ r.projectId = p }
        job   == CHOOSE r \in found : TRUE
        orig  == RowSeq(ItemsOf(j))
    IN  IF gate # Pass THEN Reject(req, gate.status, gate.error)
        ELSE IF j = NoId \/ targetProjectId = NoId \/ found = {} THEN Reject(req, 302, "")
        ELSE IF ProjectById(targetProjectId) = {}
        THEN Reject(req, 500, "Foreign key constraint failed")
        ELSE /\ nextId.job <= MaxJobs
             /\ nextId.item + Len(orig) - 1 <= MaxItems
             /\ jobs' = jobs \cup
                   { [id |-> nextId.job, projectId |-> targetProjectId,
                      name |-> job.name \o <<CopySuffix>>, isLocked |-> FALSE,
                      sortOrder |-> DefaultSortOrder] }
             /\ items' = items \cup
                   NewItems(nextId.job, orig, nextId.item, [k \in DOMAIN orig |-> DefaultSortOrder])
             /\ nextId' = [nextId EXCEPT !.job = @ + 1, !.item = @ + Len(orig)]
             /\ last' = [Respond(req, 302, "") EXCEPT !.retJobId = nextId.job]
             /\ UNCHANGED <<calls, projects, members, orderLinks, shareTokens, approvals,
                            now, everApproved>>

CopyJobPage(shop, c, p, j, t)   == CopyJobForm(shop, c, p, j, t)
CopyJobLegacy(shop, c, p, j, t) == CopyJobForm(shop, c, p, j, t)

ShareProjectForm(shop, c, p, role) ==
    LET req  == Response
        gate == EditGate(shop, c, p)
    IN  IF gate # Pass THEN Reject(req, gate.status, gate.error)
        ELSE MintToken(req, p, role, 200)

ShareProjectPage(shop, c, p, role)   == ShareProjectForm(shop, c, p, role)
ShareProjectLegacy(shop, c, p, role) == ShareProjectForm(shop, c, p, role)

\* add-member on the project page: every refusal is a 200 with a memberError.
AddMemberPage(shop, c, p, email, role, lookup) ==
    LET req  == Response
        gate == PageGate(shop, c, p)
        project == TheProject(p, shop)
    IN  IF gate # Pass THEN Reject(req, gate.status, gate.error)
        ELSE IF ~isOwner(project, c)
        THEN Reject(req, 200, "Only the project owner can add members")
        ELSE IF trim(email) = <<>> THEN Reject(req, 200, "Email is required")
        ELSE IF lookup = "throws" THEN Reject(req, 200, "Customer lookup failed")
        ELSE IF lookup = "null" THEN Reject(req, 200, "No customer found with that email")
        ELSE IF lookup = project.ownerCustomerId
        THEN Reject(req, 200, "This customer already owns the project")
        ELSE SetMembers(req,
                        UpsertMember(members, p, lookup,
                                     IF role = "edit" THEN "edit" ELSE "view"),
                        302)

\* remove-member on the project page: a caller who is not the owner, or a
\* missing / owner member id, is answered with the redirect a removal gets.
RemoveMemberPage(shop, c, p, memberCustomerId) ==
    LET req  == Response
        gate == PageGate(shop, c, p)
        project == TheProject(p, shop)
    IN  IF gate # Pass THEN Reject(req, gate.status, gate.error)
        ELSE IF ~isOwner(project, c) THEN Reject(req, 302, "")
        ELSE IF memberCustomerId = "" \/ memberCustomerId = project.ownerCustomerId
        THEN Reject(req, 302, "")
        ELSE SetMembers(req, WithoutMember(members, p, memberCustomerId), 302)

\* ------------------------------------------- project page (JSON requests)
Range(f) == { f[k] : k \in DOMAIN f }

\* Positions counted from 0 instead of 1 (a variant of ApplySortOrders).
ApplySortOrdersFromZero(rows, ids) ==
    { IF r.id \in Range(ids)
      THEN [r EXCEPT !.sortOrder = Max({ k \in DOMAIN ids : ids[k] = r.id }) - 1]
      ELSE r
      : r \in rows }

\* prisma.$transaction(ids.map((id, index) => update({ where: { id },
\* data: { sortOrder: index + 1 } }))): the updates run in the order of the
\* list, so the last position of an id is the one that stays.  All of them are
\* committed together.
ApplySortOrders(rows, ids) ==
    { IF r.id \in Range(ids)
      THEN [r EXCEPT !.sortOrder = Max({ k \in DOMAIN ids : ids[k] = r.id })]
      ELSE r
      : r \in rows }

\* const jobs = findMany({ where: { id: { in: jobIds }, projectId } });
\* jobs.length !== jobIds.length  =>  "Invalid order list"
InvalidOrderList(p, jobIds) ==
    Cardinality({ r \in jobs : r.id \in Range(jobIds) /\ r.projectId = p }) # Len(jobIds)

ReorderJobsJson(shop, c, p, jobIds) ==
    LET req  == Response
        gate == JsonGate(shop, c, p)
    IN  IF gate # Pass THEN Reject(req, gate.status, gate.error)
        ELSE IF jobIds = <<>> THEN Reject(req, 204, "")
        ELSE IF InvalidOrderList(p, jobIds) THEN Reject(req, 400, "Invalid order list")
        ELSE /\ jobs' = ApplySortOrders(jobs, jobIds)
             /\ last' = Respond(req, 204, "")
             /\ UNCHANGED <<calls, projects, members, items, orderLinks, shareTokens,
                            approvals, nextId, now, everApproved>>

ReorderJobsPage(shop, c, p, jobIds)   == ReorderJobsJson(shop, c, p, jobIds)
ReorderJobsLegacy(shop, c, p, jobIds) == ReorderJobsJson(shop, c, p, jobIds)

\* reorder-items looks at neither the job nor the project of the items it is
\* given.  prisma.jobItem.update of an id that is no row throws, which rolls
\* the transaction back.
ReorderItemsJson(shop, c, p, j, itemIds) ==
    LET req  == Response
        gate == JsonGate(shop, c, p)
    IN  IF gate # Pass THEN Reject(req, gate.status, gate.error)
        ELSE IF j = NoId \/ itemIds = <<>> THEN Reject(req, 204, "")
        ELSE IF \E id \in Range(itemIds) : \A r \in items : r.id # id
        THEN Reject(req, 500, "Record to update not found")
        ELSE /\ items' = ApplySortOrders(items, itemIds)
             /\ last' = Respond(req, 204, "")
             /\ UNCHANGED <<calls, projects, members, jobs, orderLinks, shareTokens,
                            approvals, nextId, now, everApproved>>

ReorderItemsPage(shop, c, p, j, itemIds) ==
    ReorderItemsJson(shop, c, p, j, itemIds)
ReorderItemsLegacy(shop, c, p, j, itemIds) ==
    ReorderItemsJson(shop, c, p, j, itemIds)

\* The same two handlers with their reads and their writes as separate steps,
\* as two requests under way at once take them.
\* ids.map((id, index) => update({ where: { id }, data: { sortOrder: index + 1 } }))
SortOrderUpdates(ids) == [k \in DOMAIN ids |-> [id |-> ids[k], sortOrder |-> k]]

\* Updates run in the order of the list: the last one of a row stays.
WriteSortOrders(rows, updates) ==
    { IF \E k \in DOMAIN updates : updates[k].id = r.id
      THEN [r EXCEPT !.sortOrder =
              updates[Max({ k \in DOMAIN updates : updates[k].id = r.id })].sortOrder]
      ELSE r
      : r \in rows }

\* Each update committed on its own (a variant of CommittedTogether).
CommittedOneByOne(updates) == 1

\* How many of the remaining updates the next commit makes visible:
\* prisma.$transaction([...]) commits all of them together.
CommittedTogether(updates) == Len(updates)

BeginReorderJobs(k, shop, c, p, jobIds) ==
    LET req  == Response
        gate == JsonGate(shop, c, p)
    IN  /\ calls[k].stage = "idle"
        /\ IF gate # Pass THEN Reject(req, gate.status, gate.error)
           ELSE IF jobIds = <<>> THEN Reject(req, 204, "")
           ELSE IF InvalidOrderList(p, jobIds) THEN Reject(req, 400, "Invalid order list")
           ELSE /\ calls' = [calls EXCEPT ![k] = [stage |-> "checked", kind |-> "jobs",
                                                  job |-> NoId, ids |-> jobIds,
                                                  left |-> SortOrderUpdates(jobIds)]]
                /\ UNCHANGED <<store, nextId, now, last, everApproved>>

BeginReorderItems(k, shop, c, p, j, itemIds) ==
    LET req  == Response
        gate == JsonGate(shop, c, p)
    IN  /\ calls[k].stage = "idle"
        /\ IF gate # Pass THEN Reject(req, gate.status, gate.error)
           ELSE IF j = NoId \/ itemIds = <<>> THEN Reject(req, 204, "")
           ELSE /\ calls' = [calls EXCEPT ![k] = [stage |-> "checked", kind |-> "items",
                                                  job |-> j, ids |-> itemIds,
                                                  left |-> SortOrderUpdates(itemIds)]]
                /\ UNCHANGED <<store, nextId, now, last, everApproved>>

\* The transaction of call k: an update of a row that is gone throws and rolls
\* the transaction back; otherwise the updates are committed.
CommitReorder(k) ==
    LET call  == calls[k]
        n     == CommittedTogether(call.left)
        batch == SubSeq(call.left, 1, n)
        rest  == SubSeq(call.left, n + 1, Len(call.left))
        rows  == IF call.kind = "jobs" THEN jobs ELSE items
        gone  == \E u \in Range(batch) : \A r \in rows : r.id # u.id
    IN  /\ call.stage = "checked"
        /\ IF gone
           THEN /\ calls' = [calls EXCEPT ![k].stage = "failed", ![k].left = <<>>]
                /\ last' = Respond(Response, 500, "Record to update not found")
                /\ UNCHANGED <<store, nextId, now, everApproved>>
           ELSE /\ jobs'  = IF call.kind = "jobs" THEN WriteSortOrders(jobs, batch) ELSE jobs
                /\ items' = IF call.kind = "items" THEN WriteSortOrders(items, batch) ELSE items
                /\ calls' = [calls EXCEPT ![k].left = rest,
                                          ![k].stage = IF rest = <<>> THEN "done" ELSE "checked"]
                /\ last' = IF rest = <<>> THEN Respond(Response, 204, "") ELSE last
                /\ UNCHANGED <<projects, members, orderLinks, shareTokens, approvals,
                               nextId, now, everApproved>>

\* save-cart, mode existingJob with quantityMode replace, write by write, for
\* requests handled at once.  The first step makes the checks, the
\* project.update and the copy of a locked job; the second is
\* prisma.$transaction([deleteMany, createMany]); the third is the
\* approvalRequest.deleteMany and the answer.
ReplaceStatements == <<"deleteMany", "createMany">>

BeginSaveCartReplace(k, shop, c, rawPo, rawCompany, p, j, rawItems) ==
    LET lines       == normalizeItems(rawItems)
        poNumber    == trim(rawPo)
        companyName == trim(rawCompany)
        req == Response
        err == SaveCartError(lines, poNumber, companyName)
        found == VisibleProject(p, shop, c)
        foundJob == { r \in jobs : r.id = j /\ r.projectId = p }
    IN  /\ calls[k].stage = "idle"
        /\ IF err # "" THEN Reject(req, 400, err)
           ELSE IF p = NoId \/ j = NoId
           THEN Reject(req, 400, "Select a project and order.")
           ELSE IF found = {} THEN Reject(req, 404, "Project not found.")
           ELSE IF ~canEdit(CHOOSE r \in found : TRUE, c)
           THEN Reject(req, 403, "Forbidden.")
           ELSE IF foundJob = {} THEN Reject(req, 404, "Order not found.")
           ELSE
             LET job    == CHOOSE r \in foundJob : TRUE
                 locked == isLocked(job)
                 copies == IF locked THEN Cardinality(ItemsOf(job.id)) ELSE 0
             IN  /\ locked => nextId.job <= MaxJobs
                 /\ nextId.item + copies - 1 <= MaxItems
                 /\ projects' = WithDetails(projects, p, poNumber, companyName)
                 /\ jobs' = IF locked THEN jobs \cup {CopyOfLocked(job, nextId.job)}
                            ELSE jobs
                 /\ items' = IF locked
                             THEN items \cup CopiedItems(job, nextId.job, nextId.item)
                             ELSE items
                 /\ nextId' = [nextId EXCEPT !.job = IF locked THEN @ + 1 ELSE @,
                                             !.item = @ + copies]
                 /\ calls' = [calls EXCEPT ![k] =
                                [stage |-> "saving", kind |-> "replace",
                                 job |-> IF locked THEN nextId.job ELSE job.id,
                                 ids |-> <<>>, left |-> ReplaceStatements,
                                 project |-> p, lines |-> lines, copied |-> locked]]
                 /\ UNCHANGED <<members, orderLinks, shareTokens, approvals, now, last,
                                everApproved>>

\* The transaction of call k.  createMany fails on a batch that names a variant
\* twice, on a variant the job still holds, and on a job that is gone; a
\* failure rolls back what the transaction has not yet committed.
CommitReplace(k) ==
    LET call    == calls[k]
        n       == CommittedTogether(call.left)
        batch   == SubSeq(call.left, 1, n)
        rest    == SubSeq(call.left, n + 1, Len(call.left))
        deletes == \E h \in DOMAIN batch : batch[h] = "deleteMany"
        creates == \E h \in DOMAIN batch : batch[h] = "createMany"
        kept    == IF deletes THEN { i \in items : i.jobId # call.job } ELSE items
        fails   == creates /\
                     \/ ViolatesUniqueVariant(call.lines)
                     \/ \E i \in kept : /\ i.jobId = call.job
                                        /\ \E h \in DOMAIN call.lines :
                                              call.lines[h].variantId = i.variantId
                     \/ \A r \in jobs : r.id # call.job
    IN  /\ call.stage = "saving"
        /\ IF fails
           THEN /\ calls' = [calls EXCEPT ![k].stage = "failed", ![k].left = <<>>]
                /\ last' = Respond(Response, 500, "Unique constraint failed")
                /\ UNCHANGED <<store, nextId, now, everApproved>>
           ELSE /\ creates => nextId.item + Len(call.lines) - 1 <= MaxItems
                /\ items' = kept \cup
                     (IF creates
                      THEN NewItems(call.job, call.lines, nextId.item,
                                    [h \in DOMAIN call.lines |-> h])
                      ELSE {})
                /\ nextId' = [nextId EXCEPT
                                !.item = IF creates THEN @ + Len(call.lines) ELSE @]
                /\ calls' = [calls EXCEPT ![k].left = rest,
                                          ![k].stage = IF rest = <<>> THEN "written"
                                                       ELSE "saving"]
                /\ UNCHANGED <<projects, members, jobs, orderLinks, shareTokens,
                               approvals, now, last, everApproved>>

FinishSaveCart(k) ==
    LET call == calls[k]
    IN  /\ call.stage = "written"
        /\ approvals' = WithoutJobLevelRequest(approvals, call.project, call.job)
        /\ last' = [Respond(Response, 200, "") EXCEPT !.retProjectId = call.project,
                                                      !.retJobId = call.job,
                                                      !.copied = call.copied]
        /\ calls' = [calls EXCEPT ![k].stage = "done"]
        /\ UNCHANGED <<projects, members, jobs, items, orderLinks, shareTokens,
                       nextId, now, everApproved>>

\* save-cart, mode existingJob with quantityMode add, statement by statement.
\* The first step makes the checks, the project.update, the copy of a locked
\* job and getNextSortOrder; then, for each line, findFirst reads the row of
\* the variant and update or create writes; FinishSaveCart ends the call.
BeginSaveCartAdd(k, shop, c, rawPo, rawCompany, p, j, rawItems) ==
    LET lines       == normalizeItems(rawItems)
        poNumber    == trim(rawPo)
        companyName == trim(rawCompany)
        req == Response
        err == SaveCartError(lines, poNumber, companyName)
        found == VisibleProject(p, shop, c)
        foundJob == { r \in jobs : r.id = j /\ r.projectId = p }
    IN  /\ calls[k].stage = "idle"
        /\ IF err # "" THEN Reject(req, 400, err)
           ELSE IF p = NoId \/ j = NoId
           THEN Reject(req, 400, "Select a project and order.")
           ELSE IF found = {} THEN Reject(req, 404, "Project not found.")
           ELSE IF ~canEdit(CHOOSE r \in found : TRUE, c)
           THEN Reject(req, 403, "Forbidden.")
           ELSE IF foundJob = {} THEN Reject(req, 404, "Order not found.")
           ELSE
             LET job    == CHOOSE r \in foundJob : TRUE
                 locked == isLocked(job)
                 copies == IF locked THEN Cardinality(ItemsOf(job.id)) ELSE 0
                 target == IF locked THEN nextId.job ELSE job.id
                 items1 == IF locked
                           THEN items \cup CopiedItems(job, nextId.job, nextId.item)
                           ELSE items
             IN  /\ locked => nextId.job <= MaxJobs
                 /\ nextId.item + copies - 1 <= MaxItems
                 /\ projects' = WithDetails(projects, p, poNumber, companyName)
                 /\ jobs' = IF locked THEN jobs \cup {CopyOfLocked(job, nextId.job)}
                            ELSE jobs
                 /\ items' = items1
                 /\ nextId' = [nextId EXCEPT !.job = IF locked THEN @ + 1 ELSE @,
                                             !.item = @ + copies]
                 /\ calls' = [calls EXCEPT ![k] =
                                [stage |-> "finding", kind |-> "add", job |-> target,
                                 ids |-> <<>>, left |-> lines, project |-> p,
                                 copied |-> locked, existing |-> {},
                                 nextSortOrder |-> NextSortOrderIn(items1, target)]]
                 /\ UNCHANGED <<members, orderLinks, shareTokens, approvals, now, last,
                                everApproved>>

\* prisma.jobItem.findFirst({ where: { jobId: targetJobId, variantId } })
FindLine(k) ==
    LET call == calls[k]
    IN  /\ call.stage = "finding"
        /\ calls' = [calls EXCEPT ![k].stage = "writing",
                        ![k].existing = { r \in items : /\ r.jobId = call.job
                                                        /\ r.variantId = Head(call.left).variantId }]
        /\ UNCHANGED <<store, nextId, now, last, everApproved>>

\* jobItem.update of the row that was found, with the quantity that was read,
\* or jobItem.create; the update of a row that is gone fails, and so does the
\* insert of a second row for (jobId, variantId) or for a job that is gone.
WriteLine(k) ==
    LET call  == calls[k]
        item  == Head(call.left)
        rest  == Tail(call.left)
        e     == CHOOSE r \in call.existing : TRUE
        fails == IF call.existing # {}
                 THEN \A r \in items : r.id # e.id
                 ELSE \/ \E r \in items : r.jobId = call.job /\ r.variantId = item.variantId
                      \/ \A r \in jobs : r.id # call.job
    IN  /\ call.stage = "writing"
        /\ IF fails
           THEN /\ calls' = [calls EXCEPT ![k].stage = "failed", ![k].left = <<>>]
                /\ last' = Respond(Response, 500,
                                   IF call.existing # {} THEN "Record to update not found"
                                   ELSE "Unique constraint failed")
                /\ UNCHANGED <<store, nextId, now, everApproved>>
           ELSE /\ IF call.existing # {}
                   THEN /\ e.quantity + item.quantity <= MaxQuantity
                        /\ items' = { IF r.id = e.id
                                      THEN [r EXCEPT !.quantity = e.quantity + item.quantity,
                                                     !.priceSnapshot = item.priceSnapshot]
                                      ELSE r : r \in items }
                        /\ UNCHANGED nextId
                   ELSE /\ nextId.item <= MaxItems
                        /\ items' = items \cup
                             { [id |-> nextId.item, jobId |-> call.job,
                                variantId |-> item.variantId, quantity |-> item.quantity,
                                priceSnapshot |-> item.priceSnapshot,
                                sortOrder |-> call.nextSortOrder] }
                        /\ nextId' = [nextId EXCEPT !.item = @ + 1]
                /\ calls' = [calls EXCEPT
                               ![k].left = rest,
                               ![k].stage = IF rest = <<>> THEN "written" ELSE "finding",
                               ![k].nextSortOrder = IF call.existing # {} THEN @ ELSE @ + 1]
                /\ UNCHANGED <<projects, members, jobs, orderLinks, shareTokens,
                               approvals, now, last, everApproved>>

\* save-cart, mode existingProject, statement by statement.  The first step
\* makes the checks and prisma.job.create with its nested items; the second is
\* prisma.project.update and the answer.
BeginSaveCartExistingProject(k, shop, c, rawPo, rawCompany, p, jobName, rawItems) ==
    LET lines       == normalizeItems(rawItems)
        poNumber    == trim(rawPo)
        companyName == trim(rawCompany)
        req == Response
        err == SaveCartError(lines, poNumber, companyName)
        found == VisibleProject(p, shop, c)
    IN  /\ calls[k].stage = "idle"
        /\ IF err # "" THEN Reject(req, 400, err)
           ELSE IF p = NoId \/ jobName = <<>>
           THEN Reject(req, 400, "Select a project and order name.")
           ELSE IF found = {} THEN Reject(req, 404, "Project not found.")
           ELSE IF ~canEdit(CHOOSE r \in found : TRUE, c)
           THEN Reject(req, 403, "Forbidden.")
           ELSE IF ViolatesUniqueVariant(lines)
           THEN /\ calls' = [calls EXCEPT ![k].stage = "failed"]
                /\ last' = Respond(req, 500, "Unique constraint failed")
                /\ UNCHANGED <<store, nextId, now, everApproved>>
           ELSE
             /\ nextId.job <= MaxJobs
             /\ nextId.item + Len(lines) - 1 <= MaxItems
             /\ jobs' = jobs \cup
                   { [id |-> nextId.job, projectId |-> p, name |-> jobName,
                      isLocked |-> FALSE, sortOrder |-> getNextJobSortOrder(p)] }
             /\ items' = items \cup
                   NewItems(nextId.job, lines, nextId.item, [h \in DOMAIN lines |-> h])
             /\ nextId' = [nextId EXCEPT !.job = @ + 1, !.item = @ + Len(lines)]
             /\ calls' = [calls EXCEPT ![k] =
                            [stage |-> "updating", kind |-> "existingProject",
                             job |-> nextId.job, ids |-> <<>>, left |-> <<>>,
                             project |-> p, poNumber |-> poNumber,
                             companyName |-> companyName]]
             /\ UNCHANGED <<projects, members, orderLinks, shareTokens, approvals, now,
                            last, everApproved>>

\* prisma.project.update of call k, which fails when the project is gone, and
\* the answer { projectId, jobId }.
UpdateDetails(k) ==
    LET call == calls[k]
    IN  /\ call.stage = "updating"
        /\ IF \A r \in projects : r.id # call.project
           THEN /\ calls' = [calls EXCEPT ![k].stage = "failed"]
                /\ last' = Respond(Response, 500, "Record to update not found")
                /\ UNCHANGED <<store, nextId, now, everApproved>>
           ELSE /\ projects' = WithDetails(projects, call.project, call.poNumber,
                                           call.companyName)
                /\ last' = [Respond(Response, 200, "") EXCEPT
                              !.retProjectId = call.project, !.retJobId = call.job]
                /\ calls' = [calls EXCEPT ![k].stage = "done"]
                /\ UNCHANGED <<members, jobs, items, orderLinks, shareTokens,
                               approvals, nextId, now, everApproved>>

\* save-order-edit: itemUpdates are kept when quantity >= 0; an update is
\* applied when its item is one of the job's items.
Update(i, q) == [itemId |-> i, quantity |-> q]

\* Updates applied to whatever item they name (a variant of ApplyUpdates).
ApplyUpdatesAnywhere(itms, jobItems, updates) ==
    { IF \E h \in DOMAIN updates : updates[h].itemId = r.id /\ updates[h].quantity >= 0
      THEN [r EXCEPT !.quantity =
              updates[CHOOSE h \in DOMAIN updates :
                         /\ updates[h].itemId = r.id /\ updates[h].quantity >= 0
                         /\ \A g \in DOMAIN updates :
                              (updates[g].itemId = r.id /\ updates[g].quantity >= 0)
                                => g <= h].quantity]
      ELSE r : r \in itms }

RECURSIVE ApplyUpdates(_, _, _)
ApplyUpdates(itms, jobItems, updates) ==
    IF updates = <<>> THEN itms
    ELSE LET u == Head(updates)
         IN  IF (\E r \in jobItems : r.id = u.itemId) /\ u.quantity >= 0
             THEN ApplyUpdates({ IF r.id = u.itemId THEN [r EXCEPT !.quantity = u.quantity]
                                 ELSE r : r \in itms },
                               jobItems, Tail(updates))
             ELSE ApplyUpdates(itms, jobItems, Tail(updates))

SaveOrderEdit(shop, c, p, j, rawUpdates, deleteJob) ==
    LET req   == Response
        gate  == JsonGate(shop, c, p)
        itemUpdates == SelectSeq(rawUpdates, LAMBDA u : u.quantity >= 0)
        found == { r \in jobs : r.id = j /\ r.projectId = p }
    IN  IF gate # Pass THEN Reject(req, gate.status, gate.error)
        ELSE IF j = NoId \/ found = {} THEN Reject(req, 302, "")
        ELSE IF isLocked(CHOOSE r \in found : TRUE) THEN Reject(req, 302, "")
        ELSE IF deleteJob THEN DeleteJobRow(req, j, 302)
        ELSE /\ items' = ApplyUpdates(items, ItemsOf(j), itemUpdates)
             /\ last' = Respond(req, 302, "")
             /\ UNCHANGED <<calls, projects, members, jobs, orderLinks, shareTokens,
                            approvals, nextId, now, everApproved>>

\* -------------------------------------------------------- approval workflow
\* What the collaborators answer during one request: whether e-mail is
\* configured, whether getCustomersByIds throws, who carries the NA tag, who
\* has an e-mail address, and whether sendEmail throws.
Directory(configured, lookupFails, na, withEmail, sendFails) ==
    [emailConfigured |-> configured, lookupFails |-> lookupFails,
     naTagged |-> na, withEmail |-> withEmail, sendFails |-> sendFails]

\* String.prototype.toUpperCase, token by token.
UpperTok(t) ==
    CASE t = "na"  -> "NA"
      [] t = "Na"  -> "NA"
      [] t = "nA"  -> "NA"
      [] t = "vip" -> "VIP"
      [] OTHER     -> t

toUpperCase(s) == [i \in DOMAIN s |-> UpperTok(s[i])]

\* A tag test that compares the tag as it is stored (a variant of hasNATag).
hasNATagAsStored(tags) == \E k \in DOMAIN tags : tags[k] = <<"NA">>

\* tags.some((t) => String(t).trim().toUpperCase() === "NA")
hasNATag(tags) == \E k \in DOMAIN tags : toUpperCase(trim(tags[k])) = <<"NA">>

\* customerInfo[id]?.tags of every customer the lookup returns.
NaTagged(tagsOf) == { id \in DOMAIN tagsOf : hasNATag(tagsOf[id]) }

Directories ==
    { Directory(e, f, na, m, sf) :
        e \in BOOLEAN, f \in BOOLEAN, na \in { {}, {"c3"} },
        m \in { Customers, {} }, sf \in BOOLEAN }

\* [project.ownerCustomerId, ...project.members.map((m) => m.customerId)]
memberIds(project) ==
    {project.ownerCustomerId} \cup { m.customerId : m \in MembersOf(project.id) }

\* findUnique({ where: { projectId_jobId_itemId } })
RequestAt(p, j, i) ==
    { a \in approvals : a.projectId = p /\ a.jobId = j /\ a.itemId = i }

\* approvalRequest.upsert: a new row, or requestedAt of the row refreshed.
UpsertRequest(reqs, p, j, i, date) ==
    IF \E a \in reqs : a.projectId = p /\ a.jobId = j /\ a.itemId = i
    THEN { IF a.projectId = p /\ a.jobId = j /\ a.itemId = i
           THEN [a EXCEPT !.requestedAt = date] ELSE a : a \in reqs }
    ELSE reqs \cup { [projectId |-> p, jobId |-> j, itemId |-> i,
                      requestedAt |-> date, approvedAt |-> NullDate,
                      approvedByCustomerId |-> NullCustomer] }

\* submit-for-approval writing the request row before it sends the
\* notifications (a variant of SubmitForApproval).
SubmitForApprovalWritingFirst(shop, c, p, j, i, dir) ==
    LET req  == Response
        gate == ApiGate(shop, c, p)
        approverIds == { id \in memberIds(TheProject(p, shop)) :
                           id \notin dir.naTagged /\ id # c }
        approverEmails == approverIds \cap dir.withEmail
    IN  IF gate # Pass THEN Reject(req, gate.status, gate.error)
        ELSE IF ~dir.emailConfigured THEN Reject(req, 400, "Email is not configured")
        ELSE IF dir.lookupFails THEN Reject(req, 500, "Could not load project members")
        ELSE IF approverEmails = {} THEN Reject(req, 400, "Add project member to continue")
        ELSE /\ now <= MaxClock
             /\ approvals' = UpsertRequest(approvals, p, j, i, now)
             /\ now' = now + 1
             /\ last' = IF dir.sendFails
                        THEN Respond(req, 500, "Failed to send approval request")
                        ELSE [Respond(req, 200, "") EXCEPT !.sent = approverEmails]
             /\ UNCHANGED <<calls, projects, members, jobs, items, orderLinks, shareTokens,
                            nextId, everApproved>>

SubmitForApproval(shop, c, p, j, i, dir) ==
    LET req  == Response
        gate == ApiGate(shop, c, p)
        approverIds == { id \in memberIds(TheProject(p, shop)) :
                           id \notin dir.naTagged /\ id # c }
        approverEmails == approverIds \cap dir.withEmail
    IN  IF gate # Pass THEN Reject(req, gate.status, gate.error)
        ELSE IF ~dir.emailConfigured THEN Reject(req, 400, "Email is not configured")
        ELSE IF dir.lookupFails THEN Reject(req, 500, "Could not load project members")
        ELSE IF approverEmails = {} THEN Reject(req, 400, "Add project member to continue")
        ELSE IF dir.sendFails THEN Reject(req, 500, "Failed to send approval request")
        ELSE /\ now <= MaxClock
             /\ approvals' = UpsertRequest(approvals, p, j, i, now)
             /\ now' = now + 1
             /\ last' = [Respond(req, 200, "") EXCEPT !.sent = approverEmails]
             /\ UNCHANGED <<calls, projects, members, jobs, items, orderLinks, shareTokens,
                            nextId, everApproved>>

\* A cancel that deletes every request row of the project (a variant of
\* CancelRow).
CancelRowsOfProject(req, p, j, i, sent) ==
    LET existing == RequestAt(p, j, i)
    IN  IF existing = {} THEN Reject(req, 404, "No approval request found")
        ELSE IF (CHOOSE a \in existing : TRUE).approvedAt # NullDate
        THEN Reject(req, 400, "Cannot cancel an approved request")
        ELSE /\ approvals' = { a \in approvals : a.projectId # p }
             /\ last' = [Respond(req, 200, "") EXCEPT !.sent = sent]
             /\ UNCHANGED <<calls, projects, members, jobs, items, orderLinks, shareTokens,
                            nextId, now, everApproved>>

\* The two checks both cancel variants make on the request row, then the delete.
CancelRow(req, p, j, i, sent) ==
    LET existing == RequestAt(p, j, i)
    IN  IF existing = {} THEN Reject(req, 404, "No approval request found")
        ELSE IF (CHOOSE a \in existing : TRUE).approvedAt # NullDate
        THEN Reject(req, 400, "Cannot cancel an approved request")
        ELSE /\ approvals' = approvals \ existing
             /\ last' = [Respond(req, 200, "") EXCEPT !.sent = sent]
             /\ UNCHANGED <<calls, projects, members, jobs, items, orderLinks, shareTokens,
                            nextId, now, everApproved>>

CancelApprovalRequest(shop, c, p, j, i) ==
    LET req  == Response
        gate == ApiGate(shop, c, p)
    IN  IF gate # Pass THEN Reject(req, gate.status, gate.error)
        ELSE IF ~canEdit(TheProject(p, shop), c) THEN Reject(req, 403, "Forbidden")
        ELSE CancelRow(req, p, j, i, {})

\* POST cancel-approval-request with a rejectReason.  The member lookup comes
\* after the checks on the row and before the delete; a failed send is logged.
RejectWithReason(shop, c, p, j, i, dir) ==
    LET req  == Response
        existing == RequestAt(p, j, i)
        sent == IF dir.emailConfigured /\ ~dir.sendFails
                THEN memberIds(TheProject(p, shop)) \cap dir.withEmail ELSE {}
    IN  IF p = NoId THEN Reject(req, 400, "Invalid request")
        ELSE IF ProjectInShop(p, shop) = {} THEN Reject(req, 404, "Project not found")
        ELSE IF ~isMember(TheProject(p, shop), c) THEN Reject(req, 403, "Unauthorized")
        ELSE IF ~canEdit(TheProject(p, shop), c) THEN Reject(req, 403, "Forbidden")
        ELSE IF existing # {} /\ (CHOOSE a \in existing : TRUE).approvedAt = NullDate
                /\ dir.lookupFails
        THEN Reject(req, 500, "Could not load project members")
        ELSE CancelRow(req, p, j, i, sent)

\* approve answering with the error of a failed send and leaving the row
\* as it was (a variant of Approve).
ApproveUndoneByFailedSend(shop, c, p, j, i, dir) ==
    LET req  == Response
        gate == ApiGate(shop, c, p)
        existing == RequestAt(p, j, i)
        row  == CHOOSE a \in existing : TRUE
        sent == memberIds(TheProject(p, shop)) \cap dir.withEmail
    IN  IF gate # Pass THEN Reject(req, gate.status, gate.error)
        ELSE IF dir.lookupFails THEN Reject(req, 500, "Could not load project members")
        ELSE IF c \in dir.naTagged
        THEN Reject(req, 403, "Only approvers (members without NA tag) can approve")
        ELSE IF existing = {}
        THEN Reject(req, 404, "No approval request found for this scope")
        ELSE IF row.approvedAt # NullDate
        THEN /\ last' = [Respond(req, 200, "") EXCEPT !.alreadyApproved = TRUE]
             /\ UNCHANGED <<calls, store, nextId, now, everApproved>>
        ELSE IF dir.emailConfigured /\ dir.sendFails
        THEN Reject(req, 500, "Failed to send approval notification")
        ELSE /\ now <= MaxClock
             /\ approvals' = (approvals \ existing) \cup
                   { [row EXCEPT !.approvedAt = now, !.approvedByCustomerId = c] }
             /\ now' = now + 1
             /\ everApproved' = everApproved \cup { <<p, j, i>> }
             /\ last' = [Respond(req, 200, "") EXCEPT !.sent = sent]
             /\ UNCHANGED <<calls, projects, members, jobs, items, orderLinks, shareTokens,
                            nextId>>

\* approve open only to callers who may edit the project (a variant of
\* Approve).
ApproveByEditorsOnly(shop, c, p, j, i, dir) ==
    LET req  == Response
        gate == ApiGate(shop, c, p)
        existing == RequestAt(p, j, i)
        row  == CHOOSE a \in existing : TRUE
        sent == IF dir.emailConfigured /\ ~dir.sendFails
                THEN memberIds(TheProject(p, shop)) \cap dir.withEmail ELSE {}
    IN  IF gate # Pass THEN Reject(req, gate.status, gate.error)
        ELSE IF ~canEdit(TheProject(p, shop), c) THEN Reject(req, 403, "Forbidden")
        ELSE IF dir.lookupFails THEN Reject(req, 500, "Could not load project members")
        ELSE IF c \in dir.naTagged
        THEN Reject(req, 403, "Only approvers (members without NA tag) can approve")
        ELSE IF existing = {}
        THEN Reject(req, 404, "No approval request found for this scope")
        ELSE IF row.approvedAt # NullDate
        THEN /\ last' = [Respond(req, 200, "") EXCEPT !.alreadyApproved = TRUE]
             /\ UNCHANGED <<calls, store, nextId, now, everApproved>>
        ELSE /\ now <= MaxClock
             /\ approvals' = (approvals \ existing) \cup
                   { [row EXCEPT !.approvedAt = now, !.approvedByCustomerId = c] }
             /\ now' = now + 1
             /\ everApproved' = everApproved \cup { <<p, j, i>> }
             /\ last' = [Respond(req, 200, "") EXCEPT !.sent = sent]
             /\ UNCHANGED <<calls, projects, members, jobs, items, orderLinks, shareTokens,
                            nextId>>

Approve(shop, c, p, j, i, dir) ==
    LET req  == Response
        gate == ApiGate(shop, c, p)
        existing == RequestAt(p, j, i)
        row  == CHOOSE a \in existing : TRUE
        sent == IF dir.emailConfigured /\ ~dir.sendFails
                THEN memberIds(TheProject(p, shop)) \cap dir.withEmail ELSE {}
    IN  IF gate # Pass THEN Reject(req, gate.status, gate.error)
        ELSE IF dir.lookupFails THEN Reject(req, 500, "Could not load project members")
        ELSE IF c \in dir.naTagged
        THEN Reject(req, 403, "Only approvers (members without NA tag) can approve")
        ELSE IF existing = {}
        THEN Reject(req, 404, "No approval request found for this scope")
        ELSE IF row.approvedAt # NullDate
        THEN /\ last' = [Respond(req, 200, "") EXCEPT !.alreadyApproved = TRUE]
             /\ UNCHANGED <<calls, store, nextId, now, everApproved>>
        ELSE /\ now <= MaxClock
             /\ approvals' = (approvals \ existing) \cup
                   { [row EXCEPT !.approvedAt = now, !.approvedByCustomerId = c] }
             /\ now' = now + 1
             /\ everApproved' = everApproved \cup { <<p, j, i>> }
             /\ last' = [Respond(req, 200, "") EXCEPT !.sent = sent]
             /\ UNCHANGED <<calls, projects, members, jobs, items, orderLinks, shareTokens,
                            nextId>>

\* approve and cancel-approval-request in two steps, for requests handled at
\* once: the checks with approvalRequest.findUnique, then the update (with the
\* notice to the members) or the delete of the row that was read, which fail
\* when that row is gone by then.
BeginApprove(k, shop, c, p, j, i, dir) ==
    LET req  == Response
        gate == ApiGate(shop, c, p)
        existing == RequestAt(p, j, i)
        sent == IF dir.emailConfigured /\ ~dir.sendFails
                THEN memberIds(TheProject(p, shop)) \cap dir.withEmail ELSE {}
        call == [stage |-> "read", kind |-> "approve", job |-> j, ids |-> <<>>,
                 left |-> <<>>, project |-> p, item |-> i, customer |-> c,
                 alreadyApproved |-> FALSE, sent |-> sent]
    IN  /\ calls[k].stage = "idle"
        /\ IF gate # Pass THEN Reject(req, gate.status, gate.error)
           ELSE IF dir.lookupFails THEN Reject(req, 500, "Could not load project members")
           ELSE IF c \in dir.naTagged
           THEN Reject(req, 403, "Only approvers (members without NA tag) can approve")
           ELSE IF existing = {}
           THEN Reject(req, 404, "No approval request found for this scope")
           ELSE IF (CHOOSE a \in existing : TRUE).approvedAt # NullDate
           THEN /\ last' = [Respond(req, 200, "") EXCEPT !.alreadyApproved = TRUE]
                /\ calls' = [calls EXCEPT ![k] =
                               [call EXCEPT !.stage = "done", !.alreadyApproved = TRUE,
                                            !.sent = {}]]
                /\ UNCHANGED <<store, nextId, now, everApproved>>
           ELSE /\ calls' = [calls EXCEPT ![k] = call]
                /\ UNCHANGED <<store, nextId, now, last, everApproved>>

WriteApprove(k) ==
    LET call == calls[k]
        existing == RequestAt(call.project, call.job, call.item)
        row  == CHOOSE a \in existing : TRUE
    IN  /\ call.stage = "read" /\ call.kind = "approve"
        /\ IF existing = {}
           THEN /\ calls' = [calls EXCEPT ![k].stage = "failed"]
                /\ last' = Respond(Response, 500, "Record to update not found")
                /\ UNCHANGED <<store, nextId, now, everApproved>>
           ELSE /\ now <= MaxClock
                /\ approvals' = (approvals \ existing) \cup
                      { [row EXCEPT !.approvedAt = now,
                                    !.approvedByCustomerId = call.customer] }
                /\ now' = now + 1
                /\ everApproved' = everApproved \cup { <<call.project, call.job, call.item>> }
                /\ last' = [Respond(Response, 200, "") EXCEPT !.sent = call.sent]
                /\ calls' = [calls EXCEPT ![k].stage = "done"]
                /\ UNCHANGED <<projects, members, jobs, items, orderLinks, shareTokens,
                               nextId>>

BeginCancel(k, shop, c, p, j, i) ==
    LET req  == Response
        gate == ApiGate(shop, c, p)
        existing == RequestAt(p, j, i)
    IN  /\ calls[k].stage = "idle"
        /\ IF gate # Pass THEN Reject(req, gate.status, gate.error)
           ELSE IF ~canEdit(TheProject(p, shop), c) THEN Reject(req, 403, "Forbidden")
           ELSE IF existing = {} THEN Reject(req, 404, "No approval request found")
           ELSE IF (CHOOSE a \in existing : TRUE).approvedAt # NullDate
           THEN Reject(req, 400, "Cannot cancel an approved request")
           ELSE /\ calls' = [calls EXCEPT ![k] =
                               [stage |-> "read", kind |-> "cancel", job |-> j,
                                ids |-> <<>>, left |-> <<>>, project |-> p, item |-> i,
                                customer |-> c, alreadyApproved |-> FALSE, sent |-> {}]]
                /\ UNCHANGED <<store, nextId, now, last, everApproved>>

WriteCancel(k) ==
    LET call == calls[k]
        existing == RequestAt(call.project, call.job, call.item)
    IN  /\ call.stage = "read" /\ call.kind = "cancel"
        /\ IF existing = {}
           THEN /\ calls' = [calls EXCEPT ![k].stage = "failed"]
                /\ last' = Respond(Response, 500, "Record to delete does not exist")
                /\ UNCHANGED <<store, nextId, now, everApproved>>
           ELSE /\ approvals' = approvals \ existing
                /\ last' = Respond(Response, 200, "")
                /\ calls' = [calls EXCEPT ![k].stage = "done"]
                /\ UNCHANGED <<projects, members, jobs, items, orderLinks, shareTokens,
                               nextId, now, everApproved>>

\* submit-for-approval, step by step, for requests handled at once.  The first
\* step makes the checks and sends the notifications; approvalRequest.upsert
\* then looks the row up and writes, as one statement or as a read followed
\* by a write that another request's write may precede.

\* An index that lets every insert through (a variant of ScopeTaken).
ScopeNeverTaken(reqs, p, j, i) == FALSE

\* CREATE UNIQUE INDEX "ApprovalRequest_projectId_jobId_itemId_key": an insert
\* of a second row for the triple is rejected.
ScopeTaken(reqs, p, j, i) ==
    \E a \in reqs : a.projectId = p /\ a.jobId = j /\ a.itemId = i

BeginSubmit(k, shop, c, p, j, i, dir) ==
    LET req  == Response
        gate == ApiGate(shop, c, p)
        approverIds == { id \in memberIds(TheProject(p, shop)) :
                           id \notin dir.naTagged /\ id # c }
        approverEmails == approverIds \cap dir.withEmail
    IN  /\ calls[k].stage = "idle"
        /\ IF gate # Pass THEN Reject(req, gate.status, gate.error)
           ELSE IF ~dir.emailConfigured THEN Reject(req, 400, "Email is not configured")
           ELSE IF dir.lookupFails THEN Reject(req, 500, "Could not load project members")
           ELSE IF approverEmails = {} THEN Reject(req, 400, "Add project member to continue")
           ELSE IF dir.sendFails THEN Reject(req, 500, "Failed to send approval request")
           ELSE /\ calls' = [calls EXCEPT ![k] =
                               [stage |-> "sent", kind |-> "submit", job |-> j,
                                ids |-> <<>>, left |-> <<>>, project |-> p, item |-> i,
                                found |-> FALSE, sent |-> approverEmails]]
                /\ UNCHANGED <<store, nextId, now, last, everApproved>>

ReadForUpsert(k) ==
    LET call == calls[k]
    IN  /\ call.stage = "sent"
        /\ calls' = [calls EXCEPT ![k].stage = "read",
                        ![k].found = RequestAt(call.project, call.job, call.item) # {}]
        /\ UNCHANGED <<store, nextId, now, last, everApproved>>

\* update: { requestedAt: new Date() } of the row that was found, or create;
\* the update of a row that is gone and the insert of a second row fail.
WriteUpsert(k) ==
    LET call  == calls[k]
        p     == call.project
        j     == call.job
        i     == call.item
        fails == IF call.found THEN RequestAt(p, j, i) = {}
                 ELSE ScopeTaken(approvals, p, j, i)
    IN  /\ call.stage = "read"
        /\ IF fails
           THEN /\ calls' = [calls EXCEPT ![k].stage = "failed"]
                /\ last' = Respond(Response, 500,
                                   IF call.found THEN "Record to update not found"
                                   ELSE "Unique constraint failed")
                /\ UNCHANGED <<store, nextId, now, everApproved>>
           ELSE /\ now <= MaxClock
                /\ approvals' =
                     IF call.found
                     THEN UpsertRequest(approvals, p, j, i, now)
                     ELSE approvals \cup
                            { [projectId |-> p, jobId |-> j, itemId |-> i,
                               requestedAt |-> now, approvedAt |-> NullDate,
                               approvedByCustomerId |-> NullCustomer] }
                /\ now' = now + 1
                /\ calls' = [calls EXCEPT ![k].stage = "done"]
                /\ last' = [Respond(Response, 200, "") EXCEPT !.sent = call.sent]
                /\ UNCHANGED <<projects, members, jobs, items, orderLinks, shareTokens,
                               nextId, everApproved>>

\* ------------------------------------------------------- admin settings page
\* authenticate.admin(request) yields the merchant's session; the two delete
\* intents look the row up by id and project only.
DeleteJobAdmin(p, j) ==
    LET req == Response
    IN  IF p = NoId \/ j = NoId THEN Reject(req, 400, "Order is required")
        ELSE DeleteJobIn(req, p, j, 200)

DeleteItemAdmin(p, i) ==
    LET req   == Response
        found == { r \in items : r.id = i }
        item  == CHOOSE r \in found : TRUE
        job   == CHOOSE r \in jobs : r.id = item.jobId
    IN  IF p = NoId \/ i = NoId THEN Reject(req, 400, "Item is required")
        ELSE IF found = {} \/ job.projectId # p THEN Reject(req, 404, "Item not found")
        ELSE IF isLocked(job) THEN Reject(req, 403, "Order is locked")
        ELSE /\ items' = items \ {item}
             /\ last' = Respond(req, 200, "")
             /\ UNCHANGED <<calls, projects, members, jobs, orderLinks, shareTokens,
                            approvals, nextId, now, everApproved>>

\* delete-job of the project-actions API in two steps, for requests handled
\* at once: the checks with prisma.job.findFirst, then prisma.job.delete,
\* which fails when the job is gone by then.
BeginDeleteJob(k, shop, c, p, j) ==
    LET req   == Response
        gate  == ApiGate(shop, c, p)
        found == { r \in jobs : r.id = j /\ r.projectId = p }
    IN  /\ calls[k].stage = "idle"
        /\ IF gate # Pass THEN Reject(req, gate.status, gate.error)
           ELSE IF ~canEdit(TheProject(p, shop), c) THEN Reject(req, 403, "Forbidden")
           ELSE IF j = NoId THEN Reject(req, 400, "Order is required")
           ELSE IF found = {} THEN Reject(req, 404, "Order not found")
           ELSE IF isLocked(CHOOSE r \in found : TRUE)
           THEN Reject(req, 403, "Order is locked")
           ELSE /\ calls' = [calls EXCEPT ![k] =
                               [stage |-> "deleting", kind |-> "delete-job", job |-> j,
                                ids |-> <<>>, left |-> <<>>]]
                /\ UNCHANGED <<store, nextId, now, last, everApproved>>

CommitDeleteJob(k) ==
    LET call == calls[k]
    IN  /\ call.stage = "deleting"
        /\ IF \A r \in jobs : r.id # call.job
           THEN /\ calls' = [calls EXCEPT ![k].stage = "failed"]
                /\ last' = Respond(Response, 500, "Record to delete does not exist")
                /\ UNCHANGED <<store, nextId, now, everApproved>>
           ELSE /\ jobs' = { r \in jobs : r.id # call.job }
                /\ items' = { i \in items : i.jobId # call.job }
                /\ orderLinks' = orderLinks \ {call.job}
                /\ last' = Respond(Response, 200, "")
                /\ calls' = [calls EXCEPT ![k].stage = "done"]
                /\ UNCHANGED <<projects, members, shareTokens, approvals, nextId, now,
                               everApproved>>

\* create-job of the project-actions API in three steps, for requests handled
\* at once: the checks with prisma.job.findMany of the names, then
\* getNextJobSortOrder, then prisma.job.create, which the foreign key rejects
\* when the project is gone by then.
BeginCreateJob(k, shop, c, p, jobName) ==
    LET req  == Response
        gate == ApiGate(shop, c, p)
        name == trim(jobName)
    IN  /\ calls[k].stage = "idle"
        /\ IF gate # Pass THEN Reject(req, gate.status, gate.error)
           ELSE IF ~canEdit(TheProject(p, shop), c) THEN Reject(req, 403, "Forbidden")
           ELSE IF name = <<>> THEN Reject(req, 400, "Order name is required")
           ELSE IF hasDuplicate(p, name) THEN Reject(req, 400, "This order already exists")
           ELSE /\ calls' = [calls EXCEPT ![k] =
                               [stage |-> "checked", kind |-> "create-job", job |-> NoId,
                                ids |-> <<>>, left |-> <<>>, project |-> p,
                                name |-> name, nextSortOrder |-> 0]]
                /\ UNCHANGED <<store, nextId, now, last, everApproved>>

ReadJobSortOrder(k) ==
    /\ calls[k].stage = "checked"
    /\ calls' = [calls EXCEPT ![k].stage = "ordered",
                              ![k].nextSortOrder = getNextJobSortOrder(calls[k].project)]
    /\ UNCHANGED <<store, nextId, now, last, everApproved>>

WriteJob(k) ==
    LET call == calls[k]
    IN  /\ call.stage = "ordered"
        /\ IF ProjectById(call.project) = {}
           THEN /\ calls' = [calls EXCEPT ![k].stage = "failed"]
                /\ last' = Respond(Response, 500, "Foreign key constraint failed")
                /\ UNCHANGED <<store, nextId, now, everApproved>>
           ELSE /\ nextId.job <= MaxJobs
                /\ jobs' = jobs \cup
                      { [id |-> nextId.job, projectId |-> call.project, name |-> call.name,
                         isLocked |-> FALSE, sortOrder |-> call.nextSortOrder] }
                /\ nextId' = [nextId EXCEPT !.job = @ + 1]
                /\ last' = [Respond(Response, 200, "") EXCEPT !.retJobId = nextId.job]
                /\ calls' = [calls EXCEPT ![k].stage = "done", ![k].job = nextId.job]
                /\ UNCHANGED <<projects, members, items, orderLinks, shareTokens,
                               approvals, now, everApproved>>

\* ---------------------------------------------------------- delete-project
\* The address the export of a deleted project is sent to.
BackupEmail == "backup"

\* A delete that removes the Project row and its jobs only (a variant of
\* DeleteProjectRow).
DeleteProjectRowOnly(req, p, sent) ==
    /\ projects' = { r \in projects : r.id # p }
    /\ jobs' = { r \in jobs : r.projectId # p }
    /\ last' = [Respond(req, 302, "") EXCEPT !.sent = sent]
    /\ UNCHANGED <<calls, members, items, orderLinks, shareTokens, approvals, nextId,
                   now, everApproved>>

\* prisma.project.delete: Job, ProjectMember, ProjectShareToken and
\* ApprovalRequest rows of the project go with it, and with each job its
\* JobItem rows and its OrderLink (ON DELETE CASCADE).
DeleteProjectRow(req, p, sent) ==
    LET gone == { r.id : r \in { q \in jobs : q.projectId = p } }
    IN  /\ projects' = { r \in projects : r.id # p }
        /\ jobs' = { r \in jobs : r.projectId # p }
        /\ items' = { i \in items : i.jobId \notin gone }
        /\ orderLinks' = orderLinks \ gone
        /\ members' = { m \in members : m.projectId # p }
        /\ shareTokens' = { t \in shareTokens : t.projectId # p }
        /\ approvals' = { a \in approvals : a.projectId # p }
        /\ last' = [Respond(req, 302, "") EXCEPT !.sent = sent]
        /\ UNCHANGED <<calls, nextId, now, everApproved>>

\* intent delete-project of the projects page: the project is looked up by id
\* and shop, only its owner may go on; the export is mailed when e-mail is
\* configured, and an error of the export or of sendEmail is swallowed.
DeleteProject(shop, c, p, emailConfigured, sendFails) ==
    LET req   == Response
        found == { r \in projects : r.id = p /\ r.shop = shop }
    IN  IF p = NoId \/ found = {} THEN Reject(req, 404, "Project not found")
        ELSE IF (CHOOSE r \in found : TRUE).ownerCustomerId # c
        THEN Reject(req, 403, "Forbidden")
        ELSE DeleteProjectRow(req, p,
                              IF emailConfigured /\ ~sendFails THEN {BackupEmail} ELSE {})

\* -------------------------------------------------------- order fulfilment
\* A job becomes locked when an order is placed for it (an OrderLink row) or
\* when it is marked isLocked; neither is undone.
PlaceOrder(j) ==
    /\ \E r \in jobs : r.id = j /\ ~isLocked(r)
    /\ orderLinks' = orderLinks \cup {j}
    /\ last' = Response
    /\ UNCHANGED <<calls, projects, members, jobs, items, shareTokens, approvals,
                   nextId, now, everApproved>>

MarkLocked(j) ==
    /\ \E r \in jobs : r.id = j /\ ~isLocked(r)
    /\ jobs' = { IF r.id = j THEN [r EXCEPT !.isLocked = TRUE] ELSE r : r \in jobs }
    /\ last' = Response
    /\ UNCHANGED <<calls, projects, members, items, orderLinks, shareTokens, approvals,
                   nextId, now, everApproved>>

\* ---------------------------------------------------------- initial states
\* The empty store.
Init ==
    /\ projects = {} /\ members = {} /\ jobs = {} /\ items = {}
    /\ orderLinks = {} /\ shareTokens = {} /\ approvals = {}
    /\ nextId = [project |-> 1, job |-> 1, item |-> 1, token |-> 1]
    /\ now = 1
    /\ last = NoRequest
    /\ everApproved = {}
    /\ calls = NoCalls

\* A store with one project: c1 made it with save-cart newProject (job "Deck"
\* holding one line) and c2 joined with role edit; `others` are the further
\* ProjectMember rows.
OneProject(others) ==
    /\ projects = { [id |-> 1, shop |-> "s1", name |-> <<"Site">>,
                     ownerCustomerId |-> "c1", poNumber |-> <<"PO-1">>,
                     companyName |-> <<"Acme">>] }
    /\ members = { [projectId |-> 1, customerId |-> "c1", role |-> "edit"],
                   [projectId |-> 1, customerId |-> "c2", role |-> "edit"] }
                 \cup others
    /\ jobs = { [id |-> 1, projectId |-> 1, name |-> <<"Deck">>,
                 isLocked |-> FALSE, sortOrder |-> 1] }
    /\ items = { [id |-> 1, jobId |-> 1, variantId |-> "v1", quantity |-> 1,
                  priceSnapshot |-> 10, sortOrder |-> 1] }
    /\ orderLinks = {} /\ shareTokens = {} /\ approvals = {}
    /\ nextId = [project |-> 2, job |-> 2, item |-> 2, token |-> 1]
    /\ now = 1
    /\ last = NoRequest
    /\ everApproved = {}
    /\ calls = NoCalls

Viewer == [projectId |-> 1, customerId |-> "c3", role |-> "view"]

\* c3 joined with role view.
InitOneProject == OneProject({Viewer})

\* c3 joined with role view, or did not join.
InitViewerOrOutsider == \E others \in { {Viewer}, {} } : OneProject(others)

\* The project after a second save-cart (mode existingProject, one line; mode
\* newProject had two): jobs "Deck" and "Roof", in this order, and the items
\* of "Deck" in the order of SeedItemOrder.
SeedJobOrder  == <<1, 2>>
SeedItemOrder == <<1, 2>>

InitTwoJobs ==
    /\ projects = { [id |-> 1, shop |-> "s1", name |-> <<"Site">>,
                     ownerCustomerId |-> "c1", poNumber |-> <<"PO-1">>,
                     companyName |-> <<"Acme">>] }
    /\ members = { [projectId |-> 1, customerId |-> "c1", role |-> "edit"],
                   [projectId |-> 1, customerId |-> "c2", role |-> "edit"], Viewer }
    /\ jobs = { [id |-> 1, projectId |-> 1, name |-> <<"Deck">>,
                 isLocked |-> FALSE, sortOrder |-> 1],
                [id |-> 2, projectId |-> 1, name |-> <<"Roof">>,
                 isLocked |-> FALSE, sortOrder |-> 2] }
    /\ items = { [id |-> 1, jobId |-> 1, variantId |-> "v1", quantity |-> 1,
                  priceSnapshot |-> 10, sortOrder |-> 1],
                 [id |-> 2, jobId |-> 1, variantId |-> "v2", quantity |-> 2,
                  priceSnapshot |-> 10, sortOrder |-> 2],
                 [id |-> 3, jobId |-> 2, variantId |-> "v1", quantity |-> 1,
                  priceSnapshot |-> 20, sortOrder |-> 1] }
    /\ orderLinks = {} /\ shareTokens = {} /\ approvals = {}
    /\ nextId = [project |-> 2, job |-> 3, item |-> 4, token |-> 1]
    /\ now = 1
    /\ last = NoRequest
    /\ everApproved = {}
    /\ calls = NoCalls

\* ------------------------------------------------------------ specifications
QuantityModes == {"add", "replace"}
AnyProject == ProjectIds \cup {NoId}
AnyJob     == JobIds \cup {NoId}
AnyItem    == ItemIds \cup {NoId}

\* Saving carts into the jobs of project 1, placing orders, and the delete and
\* quantity edits, by the owner and a viewer of the project and by the
\* merchant's admin.
CartCallers == {"c1", "c3"}
Carts == { << Line("v1", 1, 20) >>, << Line("v2", 2, 10), Line("", 1, 10) >> }

NextCart ==
    \/ \E c \in CartCallers, j \in JobIds, m \in QuantityModes, cart \in Carts :
         SaveCartExistingJob("s1", c, <<Blank, "PO-1", Blank>>, <<"Acme">>, 1, j, m, cart)
    \/ \E j \in JobIds : PlaceOrder(j)
    \/ \E j \in JobIds : MarkLocked(j)
    \/ \E c \in CartCallers, j \in JobIds : DeleteJobApi("s1", c, 1, j)
    \/ \E j \in JobIds : DeleteJobPage("s1", "c1", 1, j)
    \/ \E j \in JobIds : DeleteJobLegacy("s1", "c1", 1, j)
    \/ \E c \in CartCallers, i \in ItemIds : DeleteItemApi("s1", c, 1, i)
    \/ \E i \in ItemIds : DeleteItemPage("s1", "c1", 1, i)
    \/ \E i \in ItemIds : DeleteItemLegacy("s1", "c1", 1, i)
    \/ \E j \in JobIds, i \in ItemIds :
         SaveOrderEdit("s1", "c1", 1, j, << Update(i, 2) >>, FALSE)
    \/ \E j \in JobIds : SaveOrderEdit("s1", "c1", 1, j, <<>>, TRUE)
    \/ \E j \in JobIds : DeleteJobAdmin(1, j)
    \/ \E i \in ItemIds : DeleteItemAdmin(1, i)

SpecCart == InitOneProject /\ [][NextCart]_vars

\* ------------------------------------------------------------ copy-on-write
\* Carts saved into the jobs of project 1 by the owner and by a viewer, while
\* orders are placed for jobs and jobs are marked locked.
NextCopy ==
    \/ \E c \in CartCallers, j \in JobIds, m \in QuantityModes, cart \in Carts :
         SaveCartExistingJob("s1", c, <<Blank, "PO-1", Blank>>, <<"Acme">>, 1, j, m, cart)
    \/ \E j \in JobIds : PlaceOrder(j)
    \/ \E j \in JobIds : MarkLocked(j)

SpecCopy == InitOneProject /\ [][NextCopy]_vars

\* What an item holds, apart from its id and its job.
Content(S) ==
    { [variantId |-> i.variantId, quantity |-> i.quantity,
       priceSnapshot |-> i.priceSnapshot, sortOrder |-> i.sortOrder] : i \in S }

\* The content a job holds once `lines` (no variant twice) are applied to a job
\* whose content is C: replace puts the lines at 1..n; add merges a line into
\* the row of its variant and appends the others after the last row.
LinesApplied(quantityMode, C, lines) ==
    LET has(v)   == \E x \in C : x.variantId = v
        fresh    == { k \in DOMAIN lines : ~has(lines[k].variantId) }
        lastSort == IF C = {} THEN 0 ELSE Max({ x.sortOrder : x \in C })
        asRow(k, so) == [variantId |-> lines[k].variantId, quantity |-> lines[k].quantity,
                         priceSnapshot |-> lines[k].priceSnapshot, sortOrder |-> so]
    IN  IF quantityMode = "replace"
        THEN { asRow(k, k) : k \in DOMAIN lines }
        ELSE { x \in C : \A k \in DOMAIN lines : lines[k].variantId # x.variantId }
             \cup { [x EXCEPT !.quantity = x.quantity + lines[k].quantity,
                              !.priceSnapshot = lines[k].priceSnapshot]
                    : <<x, k>> \in { xk \in C \X DOMAIN lines :
                                        xk[1].variantId = lines[xk[2]].variantId } }
             \cup { asRow(k, lastSort + Cardinality({ h \in fresh : h <= k })) : k \in fresh }

\* One save-cart call into job j of project 1, as NextCart makes them.
SaveCartInto(c, j, m, cart) ==
    SaveCartExistingJob("s1", c, <<Blank, "PO-1", Blank>>, <<"Acme">>, 1, j, m, cart)

CopiedOnWrite(c, j, m, cart) ==
    LET original == CHOOSE r \in jobs : r.id = j
        before   == ItemsOf(j)
        copyId   == last'.retJobId
    IN  /\ original \in jobs'
        /\ { i \in items' : i.jobId = j } = before
        /\ (j \in orderLinks') = (j \in orderLinks)
        /\ canEdit(TheProject(1, "s1"), c) =>
             /\ last'.status = 200 /\ last'.copied
             /\ copyId # j /\ copyId \notin { r.id : r \in jobs }
             /\ \E copy \in jobs' :
                  /\ copy.id = copyId /\ copy.projectId = original.projectId
                  /\ copy.name = original.name \o <<CopySuffix>>
                  /\ ~copy.isLocked /\ copyId \notin orderLinks'
                  /\ copy.sortOrder = Max({ r.sortOrder : r \in JobsOf(1) }) + 1
             /\ Content({ i \in items' : i.jobId = copyId })
                  = LinesApplied(m, Content(before), normalizeItems(cart))

Essentials(S) ==
    { [id |-> i.id, variantId |-> i.variantId, quantity |-> i.quantity,
       priceSnapshot |-> i.priceSnapshot] : i \in S }

LockedJobsKept ==
    \A r \in jobs :
       isLocked(r) =>
         /\ \E k \in jobs' : k.id = r.id /\ k.projectId = r.projectId /\ k.name = r.name
                             /\ (k.isLocked \/ k.id \in orderLinks')
         /\ Essentials({ i \in items' : i.jobId = r.id }) = Essentials(ItemsOf(r.id))

\* The answer to a delete aimed at a locked job: an error, and the Locked
\* error whenever the caller got as far as the job.
RefusedAsLocked(mayEdit) ==
    /\ last'.status >= 400
    /\ mayEdit => last'.status = 403 /\ last'.error = "Order is locked"
    /\ UNCHANGED store

LockedJob(j) == \E r \in jobs : r.id = j /\ isLocked(r)
LockedItem(i) == \E r \in items : r.id = i /\ LockedJob(r.jobId)

DeletesOfLockedRefused ==
    /\ \A c \in CartCallers, j \in JobIds :
         (LockedJob(j) /\ (\/ DeleteJobApi("s1", c, 1, j)
                           \/ DeleteJobPage("s1", c, 1, j)
                           \/ DeleteJobLegacy("s1", c, 1, j)))
            => RefusedAsLocked(canEdit(TheProject(1, "s1"), c))
    /\ \A c \in CartCallers, i \in ItemIds :
         (LockedItem(i) /\ (\/ DeleteItemApi("s1", c, 1, i)
                            \/ DeleteItemPage("s1", c, 1, i)
                            \/ DeleteItemLegacy("s1", c, 1, i)))
            => RefusedAsLocked(canEdit(TheProject(1, "s1"), c))
    /\ \A j \in JobIds : (LockedJob(j) /\ DeleteJobAdmin(1, j)) => RefusedAsLocked(TRUE)
    /\ \A i \in ItemIds : (LockedItem(i) /\ DeleteItemAdmin(1, i)) => RefusedAsLocked(TRUE)

\* C2: no step of delete-job, delete-item, save-order-edit, save-cart or the
\* admin deletes, by whichever caller, removes a locked job, adds or removes an
\* item of it or changes the quantity or price of one; and delete-job and
\* delete-item aimed at a locked job are refused, with the Locked error for
\* every caller who passes the permission gate in front of the lock check.
C2_LockedImmutable ==
    [][LockedJobsKept /\ DeletesOfLockedRefused]_vars

\* A delete was refused as locked while a locked job holds its item and the
\* copy made of it has since been edited.
C2_Witness ==
    /\ last.status = 403 /\ last.error = "Order is locked"
    /\ \E r \in jobs : isLocked(r) /\ ItemsOf(r.id) # {}
    /\ \E r \in jobs : ~isLocked(r) /\ r.name[Len(r.name)] = CopySuffix

\* -------------------------------------------------------- approval workflow
\* Requests for approval of project 1, of its job 1 and of item 1 of that job,
\* made, approved and cancelled by the owner and an editor while the job is
\* edited.  The collaborators either all work or fail to send.
Scopes == { <<NoId, NoId>>, <<1, NoId>>, <<1, 1>> }
Approvers == {"c1", "c2"}
Working  == Directory(TRUE, FALSE, {}, Customers, FALSE)
SendFails == Directory(TRUE, FALSE, {}, Customers, TRUE)

NextApproval ==
    \/ \E c \in Approvers, s \in Scopes, dir \in {Working, SendFails} :
         SubmitForApproval("s1", c, 1, s[1], s[2], dir)
    \/ \E c \in Approvers, s \in Scopes, dir \in {Working, SendFails} :
         Approve("s1", c, 1, s[1], s[2], dir)
    \/ \E c \in Approvers, s \in Scopes : CancelApprovalRequest("s1", c, 1, s[1], s[2])
    \/ \E c \in Approvers, s \in Scopes, dir \in {Working, SendFails} :
         RejectWithReason("s1", c, 1, s[1], s[2], dir)
    \/ \E i \in ItemIds : DeleteItemApi("s1", "c1", 1, i)
    \/ \E i \in ItemIds : DeleteItemPage("s1", "c1", 1, i)
    \/ \E i \in ItemIds : DeleteItemLegacy("s1", "c1", 1, i)
    \/ \E j \in JobIds : DeleteJobApi("s1", "c1", 1, j)
    \/ \E i \in ItemIds : SaveOrderEdit("s1", "c1", 1, 1, << Update(i, 2) >>, FALSE)
    \/ \E m \in QuantityModes :
         SaveCartExistingJob("s1", "c1", <<"PO-1">>, <<"Acme">>, 1, 1, m, << Line("v1", 1, 20) >>)

SpecApproval == InitOneProject /\ [][NextApproval]_vars

Approved(p, j, i) == \E a \in RequestAt(p, j, i) : a.approvedAt # NullDate

\* C4: once the request row of a scope has approvedAt set, every later state
\* reached by submit-for-approval, cancel-approval-request, approve,
\* delete-item, delete-job, save-order-edit and save-cart still holds that row
\* with approvedAt set.
C4_ApprovedIsTerminal ==
    [][\A a \in approvals :
         a.approvedAt # NullDate =>
           \E b \in approvals' : /\ b.projectId = a.projectId /\ b.jobId = a.jobId
                                 /\ b.itemId = a.itemId /\ b.approvedAt # NullDate]_vars

\* C3: once approve has succeeded for a scope, a later cancel of that scope
\* (GET, or POST with a reason) by a caller who may edit the project fails with
\* the already-approved error and leaves the row in place, and a later approve
\* answers alreadyApproved = true and leaves approvedByCustomerId and
\* approvedAt as they are.
C3_ApprovalTerminality ==
    [][\A c \in Approvers, s \in Scopes, dir \in {Working, SendFails} :
         <<1, s[1], s[2]>> \in everApproved =>
           /\ (CancelApprovalRequest("s1", c, 1, s[1], s[2])
                 \/ RejectWithReason("s1", c, 1, s[1], s[2], dir))
                => /\ last'.status = 400
                   /\ last'.error = "Cannot cancel an approved request"
                   /\ UNCHANGED approvals /\ Approved(1, s[1], s[2])
           /\ Approve("s1", c, 1, s[1], s[2], dir)
                => /\ last'.status = 200 /\ last'.alreadyApproved
                   /\ UNCHANGED approvals /\ Approved(1, s[1], s[2])]_vars

\* ------------------------------------------------------------ access control
\* Every mutating operation, on every entry point, called by c3, who is a
\* viewer of project 1 or no member of it, while the owner and the editor add
\* a job, ask for approval and place an order.
ListsOver(S) == UNION { [1..n -> S] : n \in 0..2 }
NameInputs == { <<"Roof">>, <<>> }
OneLine == << Line("v2", 1, 10) >>

ByEditors ==
    \/ CreateJobApi("s1", "c2", 1, <<"Roof">>)
    \/ \E s \in Scopes : SubmitForApproval("s1", "c1", 1, s[1], s[2], Working)
    \/ \E j \in JobIds : PlaceOrder(j)

CreateJobBy(c) ==
    \E name \in NameInputs :
       \/ CreateJobApi("s1", c, 1, name)
       \/ CreateJobPage("s1", c, 1, name)
       \/ CreateJobLegacy("s1", c, 1, name)

DeleteJobBy(c) ==
    \E j \in AnyJob :
       \/ DeleteJobApi("s1", c, 1, j)
       \/ DeleteJobPage("s1", c, 1, j)
       \/ DeleteJobLegacy("s1", c, 1, j)

DeleteItemBy(c) ==
    \E i \in AnyItem :
       \/ DeleteItemApi("s1", c, 1, i)
       \/ DeleteItemPage("s1", c, 1, i)
       \/ DeleteItemLegacy("s1", c, 1, i)

MoveOrCopyJobBy(c) ==
    \E j \in AnyJob, t \in ProjectIds :
       \/ MoveJobPage("s1", c, 1, j, t)
       \/ MoveJobLegacy("s1", c, 1, j, t)
       \/ CopyJobPage("s1", c, 1, j, t)
       \/ CopyJobLegacy("s1", c, 1, j, t)

ReorderBy(c) ==
    \/ \E ids \in ListsOver(JobIds) :
          \/ ReorderJobsPage("s1", c, 1, ids)
          \/ ReorderJobsLegacy("s1", c, 1, ids)
    \/ \E j \in JobIds, ids \in ListsOver(ItemIds) :
          \/ ReorderItemsPage("s1", c, 1, j, ids)
          \/ ReorderItemsLegacy("s1", c, 1, j, ids)

SaveOrderEditBy(c) ==
    \E j \in JobIds, i \in ItemIds, deleteJob \in BOOLEAN :
       SaveOrderEdit("s1", c, 1, j, << Update(i, 2) >>, deleteJob)

ShareProjectBy(c) ==
    \E role \in Roles :
       \/ ShareProjectApi("s1", c, 1, role)
       \/ ShareProjectPage("s1", c, 1, role)
       \/ ShareProjectLegacy("s1", c, 1, role)

CancelBy(c) ==
    \E s \in Scopes :
       \/ CancelApprovalRequest("s1", c, 1, s[1], s[2])
       \/ RejectWithReason("s1", c, 1, s[1], s[2], Working)

SaveCartBy(c) ==
    \/ \E m \in QuantityModes, j \in JobIds :
          SaveCartExistingJob("s1", c, <<"PO-2">>, <<"Acme">>, 1, j, m, OneLine)
    \/ SaveCartExistingProject("s1", c, <<"PO-2">>, <<"Acme">>, 1, <<"Roof">>, OneLine)

GatedBy(c) ==
    \/ CreateJobBy(c) \/ DeleteJobBy(c) \/ DeleteItemBy(c) \/ MoveOrCopyJobBy(c)
    \/ ReorderBy(c) \/ SaveOrderEditBy(c) \/ ShareProjectBy(c) \/ CancelBy(c)
    \/ SaveCartBy(c)

NextAccess == ByEditors \/ GatedBy("c3")

SpecAccess == InitViewerOrOutsider /\ [][NextAccess]_vars

DeniedErrors ==
    { "Forbidden", "Forbidden.", "Unauthorized", "Project not found", "Project not found." }

Denied ==
    /\ last'.status \in {403, 404}
    /\ last'.error \in DeniedErrors
    /\ UNCHANGED <<store, nextId>>

\* C5: create-job, delete-job, delete-item, move-job, copy-job, reorder-jobs,
\* reorder-items, save-order-edit, share-project, cancel-approval-request and
\* save-cart into an existing project or job, called by someone who is neither
\* the owner nor a member with role edit of the addressed project, answer
\* Forbidden (or Unauthorized / NotFound) and leave every row of the store as
\* it was.
C5_AccessGate ==
    [][\A c \in Customers :
         (~canEdit(TheProject(1, "s1"), c) /\ GatedBy(c)) => Denied]_vars

\* The viewer was refused while the project held an approval request, two jobs
\* and a placed order.
C5_Witness ==
    /\ last.status = 403 /\ last.error = "Forbidden"
    /\ memberRole(1, "c3") = "view"
    /\ approvals # {} /\ orderLinks # {} /\ Cardinality(jobs) = 2

\* -------------------------------------------------------- member management
\* add-member and remove-member on the project page, the project-actions API
\* and the members API, called by the owner, the editor and the viewer.
AddMemberBy(c) ==
    \E email \in EmailInputs, role \in Roles, lookup \in LookupResults :
       \/ AddMemberPage("s1", c, 1, email, role, lookup)
       \/ AddMemberApi("s1", c, 1, email, role, lookup)
       \/ AddMemberMembersApi("s1", c, 1, email, role, lookup)

RemoveMemberBy(c) ==
    \E m \in Customers \cup {""} :
       \/ RemoveMemberPage("s1", c, 1, m)
       \/ RemoveMemberApi("s1", c, 1, m)
       \/ RemoveMemberMembersApi("s1", c, 1, m)

NextMembers == \E c \in Customers : RemoveMemberBy(c) \/ AddMemberBy(c)

SpecMembers == InitOneProject /\ [][NextMembers]_vars

\* C6: add-member and remove-member called by anyone but the project's owner
\* fail with a Forbidden error (a 403, or at least an error text in the
\* response) and leave the ProjectMember rows as they were, on the project
\* page, the project-actions API and the members API.
C6_OwnerOnlyMembers ==
    [][\A c \in Customers :
         (~isOwner(TheProject(1, "s1"), c) /\ (AddMemberBy(c) \/ RemoveMemberBy(c)))
            => /\ last'.status = 403 \/ last'.error # ""
               /\ UNCHANGED members]_vars

\* ------------------------------------------------------------------ job names
\* Every operation that makes a job or puts one into a project, called by the
\* owner with names that differ from "Deck" in case only, repeat it, or are new.
NextNames ==
    \/ \E name \in JobNameInputs : CreateJobLegacy("s1", "c1", 1, name)
    \/ \E name \in JobNameInputs : CreateJobPage("s1", "c1", 1, name)
    \/ \E name \in JobNameInputs : CreateJobApi("s1", "c1", 1, name)
    \/ \E name \in JobNameInputs :
         SaveCartExistingProject("s1", "c1", <<"PO-1">>, <<"Acme">>, 1, name, OneLine)
    \/ \E j \in JobIds, m \in QuantityModes :
         SaveCartExistingJob("s1", "c1", <<"PO-1">>, <<"Acme">>, 1, j, m, OneLine)
    \/ \E j \in JobIds : CopyJobPage("s1", "c1", 1, j, 1)
    \/ \E j \in JobIds : CopyJobLegacy("s1", "c1", 1, j, 1)
    \/ \E j \in JobIds : MoveJobPage("s1", "c1", 1, j, 1)
    \/ \E j \in JobIds : MoveJobLegacy("s1", "c1", 1, j, 1)
    \/ \E j \in JobIds : PlaceOrder(j)

SpecNames == InitOneProject /\ [][NextNames]_vars

\* C7: no two distinct jobs of one project have names that are equal ignoring
\* case, whichever job-creating operations ran (create-job on every entry
\* point, save-cart existingProject, the copy of a locked job, copy-job,
\* move-job).
C7_UniqueJobNames ==
    \A a, b \in jobs :
       (a.id # b.id /\ a.projectId = b.projectId)
          => toLowerCase(a.name) # toLowerCase(b.name)

\* -------------------------------------------------------------- reordering
\* reorder-jobs and reorder-items of project 1, called by the owner with every
\* list of up to two ids: ids of the collection, ids of the other job's
\* items, and an id that is no row; in between, jobs and items are deleted.
JobIdInputs  == 1..(MaxJobs + 1)
ItemIdInputs == 1..(MaxItems + 1)
JobIdLists  == ListsOver(JobIdInputs)
ItemIdLists == ListsOver(ItemIdInputs)

NextReorder ==
    \/ \E ids \in JobIdLists : ReorderJobsPage("s1", "c1", 1, ids)
    \/ \E ids \in JobIdLists : ReorderJobsLegacy("s1", "c1", 1, ids)
    \/ \E j \in JobIds, ids \in ItemIdLists : ReorderItemsPage("s1", "c1", 1, j, ids)
    \/ \E j \in JobIds, ids \in ItemIdLists : ReorderItemsLegacy("s1", "c1", 1, j, ids)
    \/ \E j \in JobIds : DeleteJobApi("s1", "c1", 1, j)
    \/ \E i \in ItemIds : DeleteItemApi("s1", "c1", 1, i)

SpecReorder == InitTwoJobs /\ [][NextReorder]_vars

Ids(rows) == { r.id : r \in rows }
IsPermutationOf(ids, S) == Len(ids) = Cardinality(S) /\ Range(ids) = S

\* findMany({ orderBy: { sortOrder: "asc" } }): every order of the rows that
\* ascends in sortOrder (rows with equal sortOrder come in either order).
ReadOrders(rows) ==
    { s \in [1..Cardinality(rows) -> Ids(rows)] :
        /\ Range(s) = Ids(rows)
        /\ \A a, b \in DOMAIN s :
             a < b => (CHOOSE r \in rows : r.id = s[a]).sortOrder
                        <= (CHOOSE r \in rows : r.id = s[b]).sortOrder }

ReorderJobsWith(ids) ==
    ReorderJobsPage("s1", "c1", 1, ids) \/ ReorderJobsLegacy("s1", "c1", 1, ids)
ReorderItemsWith(j, ids) ==
    ReorderItemsPage("s1", "c1", 1, j, ids) \/ ReorderItemsLegacy("s1", "c1", 1, j, ids)

\* C8: a reorder-jobs or reorder-items call whose id list is not exactly a
\* permutation of the collection (all jobs of the project, all items of the
\* named job) -- a strict subset, a list with a duplicate, a list with a
\* foreign id -- is never applied, not even partially: it leaves every
\* sortOrder as it was (being rejected with InvalidOrder).
C8_NonPermutationRejected ==
    [][/\ \A ids \in JobIdLists :
            (~IsPermutationOf(ids, Ids(JobsOf(1))) /\ ReorderJobsWith(ids))
               => UNCHANGED jobs
       /\ \A j \in Ids(JobsOf(1)), ids \in ItemIdLists :
            (~IsPermutationOf(ids, Ids(ItemsOf(j))) /\ ReorderItemsWith(j, ids))
               => UNCHANGED items]_vars

Perms(S) == { s \in [1..Cardinality(S) -> S] : Range(s) = S }

\* C9: after a successful reorder with a permutation P of the ids of the
\* collection, the id at position k of P (counting from 1) has sortOrder k,
\* and reading the collection by ascending sortOrder yields exactly P.
C9_ReorderBijection ==
    [][/\ \A ids \in Perms(Ids(JobsOf(1))) :
            ReorderJobsWith(ids)
               => /\ last'.status = 204
                  /\ \A k \in DOMAIN ids :
                       \E r \in jobs' : r.id = ids[k] /\ r.sortOrder = k
                  /\ ReadOrders({ r \in jobs' : r.projectId = 1 }) = {ids}
       /\ \A j \in Ids(JobsOf(1)) :
            \A ids \in Perms(Ids(ItemsOf(j))) :
               ReorderItemsWith(j, ids)
                  => /\ last'.status = 204
                     /\ \A k \in DOMAIN ids :
                          \E r \in items' : r.id = ids[k] /\ r.sortOrder = k
                     /\ ReadOrders({ r \in items' : r.jobId = j }) = {ids}]_vars

\* Both jobs are still there and read in the order <<2, 1>>, and the items of
\* job 1 read in the order <<2, 1>>: both collections were reordered.
C9_Witness ==
    /\ last.status = 204
    /\ ReadOrders(JobsOf(1)) = { <<2, 1>> }
    /\ ReadOrders(ItemsOf(1)) = { <<2, 1>> }

\* ------------------------------------------------------ concurrent reorders
\* Two reorder calls under way at once, each by the owner, the editor or the
\* viewer, each with a permutation of the jobs of project 1 or of the items
\* of one of its jobs.  Every state is one a reader may see.
NextRace ==
    \/ \E k \in Calls, c \in Customers, ids \in Perms(Ids(JobsOf(1))) :
         BeginReorderJobs(k, "s1", c, 1, ids)
    \/ \E k \in Calls, c \in Customers, j \in Ids(JobsOf(1)) :
         \E ids \in Perms(Ids(ItemsOf(j))) : BeginReorderItems(k, "s1", c, 1, j, ids)
    \/ \E k \in Calls : CommitReorder(k)

SpecRace == InitTwoJobs /\ [][NextRace]_vars

\* The id lists of the calls on a collection (the jobs, or the items of job j)
\* that have committed.
Committed(kind, j) ==
    { calls[k].ids : k \in { h \in Calls : /\ calls[h].stage = "done"
                                           /\ calls[h].kind = kind
                                           /\ calls[h].job = j } }

\* C10: whatever the interleaving of two reorder calls on a collection, the
\* order a reader gets by sortOrder is the order the collection had before
\* the calls as long as neither has committed, and from then on exactly the
\* list of one of the calls that have committed: never a part of a call's
\* assignments, never a mixture of the two.
C10_AtomicLastWriteWins ==
    /\ ReadOrders(JobsOf(1))
         \subseteq (IF Committed("jobs", NoId) = {} THEN {SeedJobOrder}
                    ELSE Committed("jobs", NoId))
    /\ ReadOrders(ItemsOf(1))
         \subseteq (IF Committed("items", 1) = {} THEN {SeedItemOrder}
                    ELSE Committed("items", 1))

\* Both calls reordered the items of job 1, with different lists, and both
\* have committed.
C10_Witness ==
    /\ \A k \in Calls : calls[k].stage = "done" /\ calls[k].kind = "items" /\ calls[k].job = 1
    /\ calls[1].ids # calls[2].ids
    /\ ReadOrders(ItemsOf(1)) \subseteq { calls[1].ids, calls[2].ids }

\* ---------------------------------------------------------- add-mode merge
\* Carts whose lines name a variant once, twice, or name two variants; a
\* missing quantityMode arrives as "".
MergeCarts ==
    { << Line("v1", 1, 20) >>,
      << Line("v2", 1, 10), Line("v2", 1, 20) >>,
      << Line("v2", 1, 20), Line("v1", 1, 10) >> }
AddModes == {"add", ""}

\* The owner adds carts to the jobs of project 1 and deletes items of them.
NextMerge ==
    \/ \E j \in JobIds, m \in AddModes, cart \in MergeCarts :
         SaveCartExistingJob("s1", "c1", <<"PO-1">>, <<"Acme">>, 1, j, m, cart)
    \/ \E i \in ItemIds : DeleteItemApi("s1", "c1", 1, i)

SpecMerge == InitOneProject /\ [][NextMerge]_vars

RECURSIVE SumOver(_, _)
SumOver(S, f) ==
    IF S = {} THEN 0
    ELSE LET k == CHOOSE x \in S : TRUE IN f[k] + SumOver(S \ {k}, f)

\* What add mode owes job j for the lines of `cart`: rows of other variants
\* stay; the row of a variant named by the lines keeps its id and sortOrder,
\* gains the quantities of its lines and takes the price of the last of them;
\* a variant without a row gets one row, after the rows already there, in the
\* order the variants first appear.
Merged(j, cart) ==
    LET lines  == normalizeItems(cart)
        before == ItemsOf(j)
        after  == { i \in items' : i.jobId = j }
        named  == { lines[k].variantId : k \in DOMAIN lines }
        at(v)  == { k \in DOMAIN lines : lines[k].variantId = v }
        total(v) == SumOver(at(v), [k \in DOMAIN lines |-> lines[k].quantity])
        price(v) == lines[Max(at(v))].priceSnapshot
        fresh  == { v \in named : \A x \in before : x.variantId # v }
        first(v) == CHOOSE k \in at(v) : \A h \in at(v) : k <= h
        rank(v) == Cardinality({ w \in fresh : first(w) <= first(v) })
        lastSort == IF before = {} THEN 0 ELSE Max({ x.sortOrder : x \in before })
    IN  /\ last'.status = 200 /\ last'.retJobId = j /\ ~last'.copied
        /\ \A x \in before :
             IF x.variantId \in named
             THEN [x EXCEPT !.quantity = x.quantity + total(x.variantId),
                            !.priceSnapshot = price(x.variantId)] \in after
             ELSE x \in after
        /\ \A v \in fresh :
             \E y \in after :
                /\ y.id \notin { x.id : x \in items }
                /\ y.variantId = v /\ y.quantity = total(v)
                /\ y.priceSnapshot = price(v)
                /\ y.sortOrder = lastSort + rank(v)
        /\ Cardinality(after) = Cardinality(before) + Cardinality(fresh)
        /\ { i \in items' : i.jobId # j } = { i \in items : i.jobId # j }

\* C11: save-cart existingJob in add mode (or with no quantityMode) into an
\* unlocked job adds, line by line, the incoming quantity to the row of the
\* line's variant and overwrites its price, leaving its sortOrder, or appends
\* a row at the highest sortOrder + 1; rows of other variants are unchanged,
\* and a variant named twice - in two calls or by two lines of one call -
\* ends as one row holding the sum.
C11_AddModeMerge ==
    [][\A j \in JobIds, m \in AddModes, cart \in MergeCarts :
         ((\E r \in jobs : r.id = j /\ ~isLocked(r))
            /\ SaveCartExistingJob("s1", "c1", <<"PO-1">>, <<"Acme">>, 1, j, m, cart))
            => Merged(j, cart)]_vars

\* Job 1 was emptied and the variant v2 then added twice: it holds one row,
\* with the sum of the quantities and the price of the last line.
C11_Witness ==
    /\ last.status = 200 /\ last.retJobId = 1
    /\ \A i \in ItemsOf(1) : i.variantId = "v2" /\ i.quantity = 2 /\ i.priceSnapshot = 20
    /\ Cardinality(ItemsOf(1)) = 1

\* ------------------------------------------------------------ replace mode
\* Carts of one line, of two lines (one of them dropped by normalizeItems),
\* and of two lines naming the same variant.
ReplaceCarts == Carts \cup { << Line("v1", 1, 10), Line("v1", 2, 20) >> }

\* Two save-cart calls in replace mode under way at once, by the owner, on
\* the jobs of project 1, some of them marked locked meanwhile.  Every state
\* is one a reader may see.
NextReplace ==
    \/ \E k \in Calls, j \in JobIds, cart \in ReplaceCarts :
         BeginSaveCartReplace(k, "s1", "c1", <<"PO-1">>, <<"Acme">>, 1, j, cart)
    \/ \E k \in Calls : CommitReplace(k)
    \/ \E k \in Calls : FinishSaveCart(k)
    \/ \E j \in JobIds : MarkLocked(j)

SpecReplace == InitOneProject /\ [][NextReplace]_vars

\* The lines as the content of a job: line k at sortOrder k.
AsContent(lines) ==
    { [variantId |-> lines[k].variantId, quantity |-> lines[k].quantity,
       priceSnapshot |-> lines[k].priceSnapshot, sortOrder |-> k] : k \in DOMAIN lines }

\* No job is seen without items: nothing but the replace deletes items here,
\* and every cart that passes the checks holds a line.
NeverHalfReplaced == \A r \in jobs : ItemsOf(r.id) # {}

ReplacedOrIntact(k) ==
    LET target == calls[k].job
        after  == { i \in items' : i.jobId = target }
    IN  IF calls'[k].stage = "failed"
        THEN items' = items
        ELSE /\ Content(after) = AsContent(calls[k].lines)
             /\ Cardinality(after) = Len(calls[k].lines)
             /\ after \cap items = {}
             /\ { i \in items' : i.jobId # target } = { i \in items : i.jobId # target }

\* C12: the transaction of a replace-mode save-cart either leaves the target
\* job holding exactly the normalized incoming lines, in order, at sortOrder
\* 1..n, none of its earlier items remaining, or fails and leaves every item
\* as it was; and no state a reader may see shows a job whose old items are
\* deleted while the new ones are not yet there.
C12_ReplaceIsAtomic ==
    [][/\ NeverHalfReplaced /\ NeverHalfReplaced'
       /\ \A k \in Calls :
            (calls[k].stage = "saving" /\ CommitReplace(k)) => ReplacedOrIntact(k)]_vars

\* One call has replaced the items of job 1 by its line, and the transaction
\* of the other failed and left them there.
C12_Witness ==
    \E k, h \in Calls :
       /\ calls[k].stage = "done" /\ calls[k].job = 1
       /\ calls[h].stage = "failed" /\ calls[h].job = 1
       /\ Content(ItemsOf(1)) = AsContent(calls[k].lines)
       /\ \A i \in ItemsOf(1) : i.id # 1

\* ---------------------------------------------------- save-cart preconditions
\* The common part of a payload: one that passes the checks, and others
\* without a usable line, PO number or company name.
Payload(po, company, cart) == [poNumber |-> po, companyName |-> company, items |-> cart]

CheckPayloads ==
    { Payload(<<Blank, "PO-1">>, <<"Acme">>, << Line("v1", 1, 20) >>),
      Payload(<<"PO-1">>, <<"Acme", Blank>>, << Line("v2", 2, 10), Line("", 1, 10) >>),
      Payload(<<"PO-1">>, <<"Acme">>, <<>>),
      Payload(<<"PO-1">>, <<"Acme">>, << Line("v1", 0, 10) >>),
      Payload(<<"PO-1">>, <<"Acme">>, << Line("", 1, 10) >>),
      Payload(<<>>, <<"Acme">>, << Line("v1", 1, 20) >>),
      Payload(<<Blank>>, <<"Acme">>, << Line("v1", 1, 20) >>),
      Payload(<<"PO-1">>, <<Blank>>, << Line("v1", 1, 20) >>) }
CheckNames == { <<>>, <<"Deck">> }

\* save-cart in its three modes, by c1, from the empty store.
NextChecks ==
    \/ \E pl \in CheckPayloads, projectName \in CheckNames, jobName \in CheckNames :
         SaveCartNewProject("s1", "c1", pl.poNumber, pl.companyName,
                            projectName, jobName, pl.items)
    \/ \E pl \in CheckPayloads, p \in AnyProject, jobName \in CheckNames :
         SaveCartExistingProject("s1", "c1", pl.poNumber, pl.companyName,
                                 p, jobName, pl.items)
    \/ \E pl \in CheckPayloads, p \in AnyProject, j \in AnyJob :
         SaveCartExistingJob("s1", "c1", pl.poNumber, pl.companyName,
                             p, j, "add", pl.items)

SpecChecks == Init /\ [][NextChecks]_vars

\* What every mode asks of the payload.
Unusable(pl) ==
    \/ normalizeItems(pl.items) = <<>>
    \/ trim(pl.poNumber) = <<>>
    \/ trim(pl.companyName) = <<>>

\* A ValidationError: status 400 with an error text, nothing written.
RefusedAsInvalid ==
    /\ last'.status = 400 /\ last'.error # ""
    /\ UNCHANGED <<store, nextId>>

\* C13: in every mode, a save-cart call without a line that has a variantId
\* and a quantity above 0, or whose PO number or company name is empty once
\* trimmed, or that lacks the names or ids its mode needs, fails with a
\* ValidationError and leaves the store unchanged: a step that is not such a
\* refusal is not a step of any such call.
C13_SaveCartPreconditions ==
    [][RefusedAsInvalid \/
       \A pl \in CheckPayloads :
         /\ \A projectName \in CheckNames, jobName \in CheckNames :
              (Unusable(pl) \/ projectName = <<>> \/ jobName = <<>>)
                => ~SaveCartNewProject("s1", "c1", pl.poNumber, pl.companyName,
                                       projectName, jobName, pl.items)
         /\ \A p \in AnyProject, jobName \in CheckNames :
              (Unusable(pl) \/ p = NoId \/ jobName = <<>>)
                => ~SaveCartExistingProject("s1", "c1", pl.poNumber, pl.companyName,
                                            p, jobName, pl.items)
         /\ \A p \in AnyProject, j \in AnyJob :
              (Unusable(pl) \/ p = NoId \/ j = NoId)
                => ~SaveCartExistingJob("s1", "c1", pl.poNumber, pl.companyName,
                                        p, j, "add", pl.items)]_vars

\* A call was refused for its company name while the store holds a project
\* with two jobs.
C13_Witness ==
    /\ last.status = 400 /\ last.error = "Company name is required."
    /\ Cardinality(JobsOf(1)) = 2

\* -------------------------------------------------- failure after the checks
\* The owner saves carts into the jobs of project 1, in both modes, with the
\* PO number the project has or another one, while jobs are marked locked.
FailurePos == { <<"PO-1">>, <<"PO-2">> }

NextFailure ==
    \/ \E po \in FailurePos, j \in JobIds, m \in QuantityModes, cart \in ReplaceCarts :
         SaveCartExistingJob("s1", "c1", po, <<"Acme">>, 1, j, m, cart)
    \/ \E j \in JobIds : MarkLocked(j)

SpecFailure == InitOneProject /\ [][NextFailure]_vars

\* C14: a save-cart call in mode existingJob that fails after its checks have
\* passed (status 500) leaves the store exactly as it was before the call: the
\* project's poNumber and companyName, the jobs and the items.
C14_NoPartialState ==
    [][\A po \in FailurePos, j \in JobIds, m \in QuantityModes, cart \in ReplaceCarts :
         (SaveCartExistingJob("s1", "c1", po, <<"Acme">>, 1, j, m, cart)
            /\ last'.status >= 500)
            => UNCHANGED store]_vars

\* ---------------------------------- project-level request after save-cart
\* C15: after every successful save-cart in mode existingJob, add or replace,
\* the project holds no pending project-level ApprovalRequest, the row with
\* jobId = "" and itemId = "" whose approvedAt is not set.
C15_NoPendingProjectRequest ==
    [][\A m \in QuantityModes :
         (SaveCartExistingJob("s1", "c1", <<"PO-1">>, <<"Acme">>, 1, 1, m, << Line("v1", 1, 20) >>)
            /\ last'.status = 200)
            => ~ \E a \in approvals' : /\ a.projectId = 1 /\ a.jobId = NoId
                                       /\ a.itemId = NoId /\ a.approvedAt = NullDate]_vars

\* ------------------------------------------ approval requests after deletes
\* Member c2 asks for approval of the project, of a job or of an item; the
\* owner deletes items through the four delete-item entry points, deletes
\* jobs, and replaces the contents of a job.
CleanupScopes == { <<NoId, NoId>>, <<1, NoId>>, <<2, NoId>>, <<1, 1>>, <<2, 3>> }

NextCleanup ==
    \/ \E s \in CleanupScopes : SubmitForApproval("s1", "c2", 1, s[1], s[2], Working)
    \/ \E i \in ItemIds : DeleteItemApi("s1", "c1", 1, i)
    \/ \E i \in ItemIds : DeleteItemPage("s1", "c1", 1, i)
    \/ \E i \in ItemIds : DeleteItemLegacy("s1", "c1", 1, i)
    \/ \E i \in ItemIds : DeleteItemAdmin(1, i)
    \/ \E j \in JobIds : DeleteJobApi("s1", "c1", 1, j)
    \/ \E j \in JobIds :
         SaveCartExistingJob("s1", "c1", <<"PO-1">>, <<"Acme">>, 1, j, "replace",
                             << Line("v2", 1, 20) >>)

SpecCleanup == InitTwoJobs /\ [][NextCleanup]_vars

Awaiting(reqs, p, j, i) ==
    { a \in reqs : /\ a.projectId = p /\ a.jobId = j /\ a.itemId = i
                   /\ a.approvedAt = NullDate }

\* C16: when delete-item, through any of its entry points, deletes an item of
\* job j while the job-level request of j is awaiting, that row is gone
\* afterwards and every other ApprovalRequest row is unchanged.
C16_DeleteItemCleansRequest ==
    [][\A r \in items :
         ( /\ Awaiting(approvals, 1, r.jobId, NoId) # {}
           /\ \/ DeleteItemApi("s1", "c1", 1, r.id)
              \/ DeleteItemPage("s1", "c1", 1, r.id)
              \/ DeleteItemLegacy("s1", "c1", 1, r.id)
              \/ DeleteItemAdmin(1, r.id)
           /\ r \notin items' )
           => approvals' = approvals \ Awaiting(approvals, 1, r.jobId, NoId)]_vars

\* C17: once an item has been deleted, by delete-item, by a replace-mode
\* save-cart or together with its job, no ApprovalRequest row names it.
C17_NoStaleItemRequest ==
    [][\A r \in items :
         r.id \notin Ids(items') => ~ \E a \in approvals' : a.itemId = r.id]_vars

\* ------------------------------------------------ submit-for-approval
\* The tags the customer lookup returns for c1, c2 and c3, who has an e-mail
\* address, and the state of the mail service.
Tags(t1, t2, t3) == [c \in Customers |-> CASE c = "c1" -> t1 [] c = "c2" -> t2 [] OTHER -> t3]

TagBooks ==
    { Tags(<<>>, <<>>, <<>>),
      Tags(<<>>, << <<Blank, "na", Blank>> >>, << <<"vip">> >>),
      Tags(<<>>, << <<"vip">>, <<"Na">> >>, << <<"NA">> >>),
      Tags(<< <<"nA">> >>, << <<"NA", Blank, "team">> >>, <<>>),
      Tags(<< <<"NA", Blank>> >>, <<>>, << <<"vip">> >>) }

EmailBooks == { Customers, Customers \ {"c3"} }

MailStates == { <<TRUE, FALSE>>, <<TRUE, TRUE>>, <<FALSE, FALSE>> }

SubmitScopes == { <<NoId, NoId>> }

NextSubmit ==
    \/ \E c \in Customers, s \in SubmitScopes, tb \in TagBooks, w \in EmailBooks, ms \in MailStates :
         SubmitForApproval("s1", c, 1, s[1], s[2],
                           Directory(ms[1], FALSE, NaTagged(tb), w, ms[2]))
    \/ \E m \in Customers : RemoveMemberApi("s1", "c1", 1, m)
    \/ \E c \in Approvers, s \in SubmitScopes : CancelApprovalRequest("s1", c, 1, s[1], s[2])

SpecSubmit == InitOneProject /\ [][NextSubmit]_vars

\* A tag equal to "NA" once surrounding white space is dropped and the case
\* of its letters is ignored.
CarriesNA(tags) ==
    \E k \in DOMAIN tags :
       /\ Len(trim(tags[k])) = 1
       /\ trim(tags[k])[1] \in {"NA", "Na", "nA", "na"}

Recipients(c, tb) ==
    ({ r.ownerCustomerId : r \in projects } \cup { m.customerId : m \in members })
       \ ({c} \cup { x \in Customers : CarriesNA(tb[x]) })

\* C18: a submit-for-approval that reaches its recipient computation (the
\* caller is a member, mail is configured) notifies, when it succeeds, the
\* owner and the members other than the requester and the NA-tagged customers,
\* as far as they have an address; when that set is empty it fails with
\* "Add project member to continue", notifies nobody and leaves the
\* ApprovalRequest rows as they were.
C18_Recipients ==
    [][\A c \in Customers, s \in SubmitScopes, tb \in TagBooks, w \in EmailBooks, sf \in BOOLEAN :
         ( /\ ApiGate("s1", c, 1) = Pass
           /\ SubmitForApproval("s1", c, 1, s[1], s[2],
                                Directory(TRUE, FALSE, NaTagged(tb), w, sf)) )
           => /\ last'.status = 200 => last'.sent = Recipients(c, tb) \cap w
              /\ Recipients(c, tb) = {} =>
                   /\ last'.status = 400
                   /\ last'.error = "Add project member to continue"
                   /\ last'.sent = {}
                   /\ approvals' = approvals]_vars

\* Nobody was left to notify although c2, who has an address, is a member:
\* c2 was the requester or carried the NA tag.
C18_Witness ==
    /\ last.status = 400 /\ last.error = "Add project member to continue"
    /\ \E m \in members : m.customerId = "c2"
    /\ approvals # {}

\* C19: a submit-for-approval by a member that cannot notify fails and leaves
\* the ApprovalRequest rows as they were, so that no row is created and the
\* row of the scope keeps its requestedAt: with mail not configured it fails
\* with "Email is not configured", and with a failing send it reports an
\* error.
C19_NoNotificationNoRequest ==
    [][\A c \in Customers, s \in SubmitScopes, tb \in TagBooks, w \in EmailBooks,
          ms \in { <<FALSE, FALSE>>, <<TRUE, TRUE>> } :
         ( /\ ApiGate("s1", c, 1) = Pass
           /\ SubmitForApproval("s1", c, 1, s[1], s[2],
                                Directory(ms[1], FALSE, NaTagged(tb), w, ms[2])) )
           => /\ approvals' = approvals
              /\ last'.status >= 400 /\ last'.error # ""
              /\ ~ ms[1] => last'.status = 400 /\ last'.error = "Email is not configured"]_vars

\* A send failed while the scope already had its row, which still carries
\* the requestedAt of the earlier submit.
C19_Witness ==
    /\ last.status = 500 /\ last.error = "Failed to send approval request"
    /\ \E a \in approvals : /\ a.projectId = 1 /\ a.jobId = NoId /\ a.itemId = NoId
                            /\ a.requestedAt = 1
    /\ now = 2

\* ------------------------------------------- notification failure is not fatal
\* C20: when every notification send fails, a first approve of an awaiting
\* request still sets approvedAt and approvedByCustomerId and answers 200, and
\* a cancel-approval-request with a rejection reason still deletes the
\* awaiting row and answers 200.
C20_SendFailureNotFatal ==
    [][\A c \in Approvers, s \in Scopes :
         Awaiting(approvals, 1, s[1], s[2]) # {} =>
           /\ Approve("s1", c, 1, s[1], s[2], SendFails) =>
                /\ last'.status = 200 /\ ~ last'.alreadyApproved /\ last'.sent = {}
                /\ \E a \in approvals' :
                      /\ a.projectId = 1 /\ a.jobId = s[1] /\ a.itemId = s[2]
                      /\ a.approvedAt = now /\ a.approvedAt # NullDate
                      /\ a.approvedByCustomerId = c
           /\ RejectWithReason("s1", c, 1, s[1], s[2], SendFails) =>
                /\ last'.status = 200 /\ last'.sent = {}
                /\ approvals' = approvals \ Awaiting(approvals, 1, s[1], s[2])]_vars

\* Member c2 approved the request of job 1 at the latest clock value and the
\* answer was a success that reached no address.
C20_Witness ==
    /\ last.status = 200 /\ ~ last.alreadyApproved /\ last.sent = {}
    /\ \E a \in approvals : /\ a.projectId = 1 /\ a.jobId = 1 /\ a.itemId = NoId
                            /\ a.approvedByCustomerId = "c2" /\ a.approvedAt = now - 1

\* ------------------------------------------------ one request per scope
\* Members c1 and c2 submit the same or different scopes for approval at
\* once, approve and cancel.
NextUpsert ==
    \/ \E k \in Calls, c \in Approvers, s \in Scopes :
         BeginSubmit(k, "s1", c, 1, s[1], s[2], Working)
    \/ \E k \in Calls : ReadForUpsert(k)
    \/ \E k \in Calls : WriteUpsert(k)
    \/ \E s \in Scopes : CancelApprovalRequest("s1", "c1", 1, s[1], s[2])
    \/ \E s \in Scopes : Approve("s1", "c2", 1, s[1], s[2], Working)

SpecUpsert == InitOneProject /\ [][NextUpsert]_vars

OneRowPerScope ==
    \A a, b \in approvals :
       (a.projectId = b.projectId /\ a.jobId = b.jobId /\ a.itemId = b.itemId) => a = b

\* C21: every state holds at most one ApprovalRequest row per (projectId,
\* jobId, itemId), also while submit-for-approval calls on one scope are under
\* way together; and a submit that writes to a scope that is awaiting leaves
\* all rows as they were but for the requestedAt of that scope's row.
C21_OneRequestPerScope ==
    [][/\ OneRowPerScope /\ OneRowPerScope'
       /\ \A k \in Calls :
            ( /\ calls[k].stage = "read" /\ WriteUpsert(k) /\ calls'[k].stage = "done"
              /\ Awaiting(approvals, calls[k].project, calls[k].job, calls[k].item) # {} )
            => \E a \in Awaiting(approvals, calls[k].project, calls[k].job, calls[k].item) :
                  approvals' = (approvals \ {a}) \cup {[a EXCEPT !.requestedAt = now]}]_vars

\* Two submits of the scope of job 1 ran together: one created the row, the
\* insert of the other was rejected, and the scope holds one awaiting row.
C21_Witness ==
    /\ \E k, h \in Calls :
          /\ calls[k].stage = "done" /\ calls[h].stage = "failed"
          /\ calls[k].kind = "submit" /\ calls[h].kind = "submit"
          /\ calls[k].job = 1 /\ calls[h].job = 1
          /\ calls[k].item = NoId /\ calls[h].item = NoId
    /\ last.error = "Unique constraint failed"
    /\ Cardinality(Awaiting(approvals, 1, 1, NoId)) = 1

\* ------------------------------------------------------- who may approve
\* The owner submits scopes for approval and removes members; every customer,
\* tagged or not, member or not, tries to approve.
ApproveScopes == { <<NoId, NoId>>, <<1, NoId>> }

NextApprovers ==
    \/ \E s \in ApproveScopes : SubmitForApproval("s1", "c1", 1, s[1], s[2], Working)
    \/ \E c \in Customers, s \in ApproveScopes, tb \in TagBooks :
         Approve("s1", c, 1, s[1], s[2],
                 Directory(TRUE, FALSE, NaTagged(tb), Customers, FALSE))
    \/ \E m \in Customers : RemoveMemberApi("s1", "c1", 1, m)
    \/ \E s \in ApproveScopes : CancelApprovalRequest("s1", "c1", 1, s[1], s[2])

SpecApprovers == InitOneProject /\ [][NextApprovers]_vars

MayApprove(c, tags) ==
    /\ \/ \E r \in projects : r.id = 1 /\ r.ownerCustomerId = c
       \/ \E m \in members : m.projectId = 1 /\ m.customerId = c
    /\ ~ CarriesNA(tags)

\* C22: approve by a caller who is neither the owner nor holds a ProjectMember
\* row, or who carries the NA tag, is answered 403 and leaves the request rows
\* as they were; approve of an awaiting scope by the owner or a member without
\* the NA tag, whatever the member's role, sets approvedAt and
\* approvedByCustomerId.
C22_WhoMayApprove ==
    [][\A c \in Customers, s \in ApproveScopes, tb \in TagBooks :
         Approve("s1", c, 1, s[1], s[2],
                 Directory(TRUE, FALSE, NaTagged(tb), Customers, FALSE))
           => /\ ~ MayApprove(c, tb[c]) =>
                    /\ last'.status = 403 /\ last'.error # ""
                    /\ approvals' = approvals
              /\ (MayApprove(c, tb[c]) /\ Awaiting(approvals, 1, s[1], s[2]) # {}) =>
                    /\ last'.status = 200
                    /\ \E a \in approvals' :
                          /\ a.projectId = 1 /\ a.jobId = s[1] /\ a.itemId = s[2]
                          /\ a.approvedAt = now /\ a.approvedByCustomerId = c]_vars

\* c3, a member with role view, approved a request.
C22_Witness ==
    /\ last.status = 200
    /\ Viewer \in members
    /\ \E a \in approvals : a.approvedByCustomerId = "c3" /\ a.approvedAt = now - 1

\* ------------------------------------------------------ cancelling a request
\* Members c1 and c2 submit scopes for approval, cancel them with or without
\* a reason, and approve them; the viewer c3 tries to cancel too.
NextCancel ==
    \/ \E c \in Approvers, s \in Scopes : SubmitForApproval("s1", c, 1, s[1], s[2], Working)
    \/ \E c \in Customers, s \in Scopes : CancelApprovalRequest("s1", c, 1, s[1], s[2])
    \/ \E c \in Approvers, s \in Scopes, dir \in {Working, SendFails} :
         RejectWithReason("s1", c, 1, s[1], s[2], dir)
    \/ \E c \in Approvers, s \in Scopes : Approve("s1", c, 1, s[1], s[2], Working)

SpecCancel == InitOneProject /\ [][NextCancel]_vars

\* C23: cancel-approval-request, with or without a rejection reason, by a
\* caller who may edit the project answers 404 and changes nothing when the
\* scope has no row, and when the scope is awaiting it deletes that scope's
\* row and no other; a submit-for-approval of a scope without a row then
\* creates its awaiting row again.
C23_CancelFrame ==
    [][\A c \in Approvers, s \in Scopes, dir \in {Working, SendFails} :
         /\ (CancelApprovalRequest("s1", c, 1, s[1], s[2])
               \/ RejectWithReason("s1", c, 1, s[1], s[2], dir))
              => /\ RequestAt(1, s[1], s[2]) = {} =>
                      /\ last'.status = 404 /\ last'.error # ""
                      /\ UNCHANGED store
                 /\ Awaiting(approvals, 1, s[1], s[2]) # {} =>
                      /\ last'.status = 200
                      /\ approvals' = approvals \ Awaiting(approvals, 1, s[1], s[2])
                      /\ UNCHANGED <<projects, members, jobs, items, orderLinks, shareTokens>>
         /\ (RequestAt(1, s[1], s[2]) = {} /\ dir = Working
               /\ SubmitForApproval("s1", c, 1, s[1], s[2], dir))
              => /\ last'.status = 200
                 /\ Cardinality(Awaiting(approvals', 1, s[1], s[2])) = 1]_vars

\* A request made at clock value 1 was rejected with a reason: the members
\* were told and no request row is left.
C23_Witness ==
    /\ last.status = 200 /\ last.sent # {}
    /\ approvals = {} /\ now = 2

\* -------------------------------------------------------------- share links
\* c1 or c2 makes the project with save-cart newProject in either shop; its
\* owner mints share links and adds and removes members; customers of either
\* shop follow links that exist and links that do not.
TokenInputs == 1..(MaxTokens + 1)

NextShare ==
    \/ \E shop \in Shops, c \in Approvers :
         SaveCartNewProject(shop, c, <<"PO-1">>, <<"Acme">>, <<"Site">>, <<"Deck">>,
                            << Line("v1", 1, 20) >>)
    \/ \E shop \in Shops, c \in Customers, role \in Roles : ShareProjectApi(shop, c, 1, role)
    \/ \E shop \in Shops, c \in Customers, t \in TokenInputs : RedeemShareToken(shop, c, t)
    \/ \E c \in Approvers, role \in Roles, lookup \in Customers :
         AddMemberApi("s1", c, 1, <<"a@example.com">>, role, lookup)
    \/ \E c \in Approvers, m \in Customers : RemoveMemberApi("s1", c, 1, m)

SpecShare == Init /\ [][NextShare]_vars

ValidToken(shop, token) ==
    { t \in shareTokens : t.token = token /\ \E r \in projects : r.id = t.projectId /\ r.shop = shop }

\* C24: redeeming a token of a project of the caller's shop leaves exactly one
\* ProjectMember row for (project, caller), carrying the token's role, and
\* changes nothing else, the token rows included; when the caller already
\* holds that row the store stays as it is; redeeming a token that is unknown
\* or belongs to a project of another shop answers 404 and changes nothing.
C24_RedeemIdempotent ==
    [][\A shop \in Shops, c \in Customers, token \in TokenInputs :
         RedeemShareToken(shop, c, token) =>
           /\ ValidToken(shop, token) = {} =>
                 /\ last'.status = 404 /\ UNCHANGED store
           /\ \A t \in ValidToken(shop, token) :
                 LET row == [projectId |-> t.projectId, customerId |-> c, role |-> t.role]
                 IN  /\ last'.status = 302
                     /\ { m \in members' : m.projectId = t.projectId /\ m.customerId = c }
                          = {row}
                     /\ { m \in members' : ~(m.projectId = t.projectId /\ m.customerId = c) }
                          = { m \in members : ~(m.projectId = t.projectId /\ m.customerId = c) }
                     /\ UNCHANGED <<projects, jobs, items, orderLinks, shareTokens, approvals>>
                     /\ row \in members => UNCHANGED store]_vars

\* The owner c1, whose row carried role edit, followed a link of role view,
\* which still exists; c1 holds one row, with role view.
C24_Witness ==
    /\ last.status = 302
    /\ \E r \in projects : r.id = 1 /\ r.ownerCustomerId = "c1"
    /\ \E t \in shareTokens : t.role = "view" /\ t.projectId = 1
    /\ { m \in members : m.customerId = "c1" }
         = { [projectId |-> 1, customerId |-> "c1", role |-> "view"] }

\* C25: no ProjectMember row names the owner of its project.
C25_OwnerNotStored ==
    \A m \in members : \A r \in projects :
       r.id = m.projectId => m.customerId # r.ownerCustomerId

\* ------------------------------------------------ add mode, calls at once
\* Two save-cart calls in add mode by the owner are under way together, into
\* the same job or into different ones.
AddCarts == { << Line("v2", 1, 20) >>, << Line("v1", 1, 20) >>,
              << Line("v2", 1, 10), Line("v2", 1, 20) >> }

NextAddRace ==
    \/ \E k \in Calls, j \in JobIds, cart \in AddCarts :
         BeginSaveCartAdd(k, "s1", "c1", <<"PO-1">>, <<"Acme">>, 1, j, cart)
    \/ \E k \in Calls : FindLine(k)
    \/ \E k \in Calls : WriteLine(k)
    \/ \E k \in Calls : FinishSaveCart(k)

SpecAddRace == InitOneProject /\ [][NextAddRace]_vars

UniqueVariants ==
    \A a, b \in items : (a.jobId = b.jobId /\ a.variantId = b.variantId) => a = b

\* C26: no job ever holds two JobItem rows of one variant, also while add-mode
\* save-cart calls on one job are under way together, and no write of such a
\* call is refused: a line whose variant the job holds is merged into the row.
C26_DuplicatesMerged ==
    [][/\ UniqueVariants /\ UniqueVariants'
       /\ \A k \in Calls : (calls[k].stage = "writing" /\ WriteLine(k))
                              => calls'[k].stage # "failed"]_vars

\* The quantity job j holds of variant v: 0 when it holds none.
Held(itms, j, v) ==
    LET rows == { r \in itms : r.jobId = j /\ r.variantId = v }
    IN  IF rows = {} THEN 0 ELSE (CHOOSE r \in rows : TRUE).quantity

\* The write of call k adds the quantity of its line to what the job holds of
\* the variant at that moment.
AddsToHeld(k) ==
    LET line == Head(calls[k].left)
    IN  /\ calls'[k].stage # "failed"
        /\ Held(items', calls[k].job, line.variantId)
             = Held(items, calls[k].job, line.variantId) + line.quantity

\* C35: with two add-mode save-cart calls on one job under way together, every
\* write of a line succeeds and leaves the job with the quantity it held of
\* the variant plus the quantity of the line, so that after both calls the
\* row holds the previous quantity plus both.
C35_NoLostUpdate ==
    [][\A k \in Calls : (calls[k].stage = "writing" /\ WriteLine(k)) => AddsToHeld(k)]_vars

\* ------------------------------------------------------------ append rule
\* The owner creates jobs through the three create-job entry points and
\* through save-cart, adds lines to jobs, locked ones included, and deletes
\* jobs and items, so that sortOrders have gaps.
AppendNames == { <<Blank, "Roof">> }
AppendCarts == { << Line("v2", 1, 10), Line("v1", 1, 10) >> }

NextAppend ==
    \/ \E name \in AppendNames : CreateJobApi("s1", "c1", 1, name)
    \/ \E name \in AppendNames : CreateJobPage("s1", "c1", 1, name)
    \/ \E name \in AppendNames : CreateJobLegacy("s1", "c1", 1, name)
    \/ \E name \in AppendNames, cart \in AppendCarts :
         SaveCartExistingProject("s1", "c1", <<"PO-1">>, <<"Acme">>, 1, name, cart)
    \/ \E j \in JobIds, cart \in AppendCarts :
         SaveCartExistingJob("s1", "c1", <<"PO-1">>, <<"Acme">>, 1, j, "add", cart)
    \/ \E j \in JobIds : MarkLocked(j)
    \/ \E j \in JobIds : DeleteJobApi("s1", "c1", 1, j)
    \/ \E i \in ItemIds : DeleteItemApi("s1", "c1", 1, i)

SpecAppend == InitOneProject /\ [][NextAppend]_vars

\* The greatest sortOrder among rows, 0 when there are none.
Greatest(rows) ==
    IF rows = {} THEN 0
    ELSE CHOOSE x \in { r.sortOrder : r \in rows } : \A r \in rows : r.sortOrder <= x

\* Every job of project 1 that the step creates stands one past the greatest
\* sortOrder the project's jobs had.
JobsAppended ==
    \A r \in jobs' : r.id \notin Ids(jobs) => r.sortOrder = Greatest(JobsOf(1)) + 1

\* The rows the step puts into job t for variants that job j did not hold
\* take the sortOrders that follow the greatest one of job j.
ItemsAppended(j, t) ==
    LET held     == { o.variantId : o \in ItemsOf(j) }
        appended == { r \in items' : r.jobId = t /\ r.variantId \notin held }
    IN  { r.sortOrder : r \in appended }
          = (Greatest(ItemsOf(j)) + 1) .. (Greatest(ItemsOf(j)) + Cardinality(appended))

\* C27: a job created by create-job, by save-cart existingProject or as the
\* copy of a locked job gets the greatest sortOrder among the project's jobs
\* plus 1, which is 1 in a project without jobs; the items an add-mode
\* save-cart appends get the sortOrders after the greatest one of the job.
C27_AppendRule ==
    [][/\ \A name \in AppendNames :
            (\/ CreateJobApi("s1", "c1", 1, name)
             \/ CreateJobPage("s1", "c1", 1, name)
             \/ CreateJobLegacy("s1", "c1", 1, name)
             \/ \E cart \in AppendCarts :
                  SaveCartExistingProject("s1", "c1", <<"PO-1">>, <<"Acme">>, 1, name, cart))
              => JobsAppended
       /\ \A j \in JobIds, cart \in AppendCarts :
            (SaveCartExistingJob("s1", "c1", <<"PO-1">>, <<"Acme">>, 1, j, "add", cart)
               /\ last'.status = 200)
              => /\ JobsAppended
                 /\ ItemsAppended(j, last'.retJobId)]_vars

\* Job 1 lost its first item and then got a line of a variant it did not
\* hold: the new row stands at sortOrder 3, after the row at 2.
C27_Witness ==
    /\ last.status = 200 /\ last.retJobId = 1
    /\ { r.sortOrder : r \in ItemsOf(1) } = {2, 3}
    /\ \E r \in ItemsOf(1) : r.sortOrder = 3 /\ r.id = 3

\* ------------------------------------------------------ save-cart, newProject
\* c1 and c2 call save-cart in mode newProject in either shop, from the empty
\* store, with carts that hold one variant twice, lines to drop, or nothing.
NewPos      == { <<Blank>>, <<Blank, "PO-1">>, <<"PO-2">> }
NewNames    == { <<>>, <<"Site">> }
NewCarts ==
    { <<>>,
      << Line("v1", 1, 20) >>,
      << Line("v2", 2, 10), Line("", 1, 10) >>,
      << Line("v2", 1, 10), Line("v1", 0, 10), Line("v1", 2, 20) >>,
      << Line("v1", 1, 10), Line("v1", 2, 20) >> }

NextNewProject ==
    \E shop \in Shops, c \in Approvers, po \in NewPos, projectName \in NewNames,
       cart \in NewCarts :
       SaveCartNewProject(shop, c, po, <<"Acme", Blank>>, projectName, <<"Deck">>, cart)

SpecNewProject == Init /\ [][NextNewProject]_vars

\* The lines of a cart that name a variant and have a positive quantity.
Usable(cart) ==
    { k \in DOMAIN cart : cart[k].variantId # "" /\ cart[k].quantity > 0 }

DistinctVariants(cart) ==
    \A k, h \in Usable(cart) : cart[k].variantId = cart[h].variantId => k = h

\* One project of `c` in `shop` with the given details was added, with
\* one unlocked job of the given name at sortOrder 1 that holds the usable
\* lines of the cart in their order, and the answer carries both ids.
Created(shop, c, po, projectName, jobName, cart) ==
    \E p \in projects' \ projects, j \in jobs' \ jobs :
       /\ projects' = projects \cup {p} /\ jobs' = jobs \cup {j}
       /\ items \subseteq items'
       /\ p.shop = shop /\ p.ownerCustomerId = c /\ p.name = projectName
       /\ p.poNumber = trim(po) /\ p.companyName = <<"Acme">>
       /\ j.projectId = p.id /\ j.name = jobName /\ ~ j.isLocked /\ j.sortOrder = 1
       /\ \A q \in projects : q.id # p.id
       /\ \A g \in jobs : g.id # j.id
       /\ \A r \in items' \ items : r.jobId = j.id
       /\ Cardinality(items' \ items) = Cardinality(Usable(cart))
       /\ \A k \in Usable(cart) :
             \E r \in items' \ items :
                /\ r.variantId = cart[k].variantId /\ r.quantity = cart[k].quantity
                /\ r.priceSnapshot = cart[k].priceSnapshot
                /\ r.sortOrder = Cardinality({ h \in Usable(cart) : h <= k })
       /\ last'.status = 200 /\ last'.retProjectId = p.id /\ last'.retJobId = j.id

\* With no two usable lines naming the same variant, save-cart newProject
\* creates the project, its job and the items, and answers with both ids.
NewProjectOfDistinctVariants ==
    [][\A shop \in Shops, c \in Approvers, po \in NewPos, cart \in NewCarts :
         (trim(po) # <<>> /\ Usable(cart) # {} /\ DistinctVariants(cart)) =>
           (SaveCartNewProject(shop, c, po, <<"Acme", Blank>>, <<"Site">>, <<"Deck">>, cart)
              => Created(shop, c, po, <<"Site">>, <<"Deck">>, cart))]_vars

\* C28: save-cart newProject with names, a PO number, a company name and at
\* least one usable line creates exactly one project owned by the caller with
\* the trimmed PO number and company name, holding exactly one unlocked job of
\* the given name at sortOrder 1 whose items are the usable lines at sortOrder
\* 1..n, and answers with the ids of the project and the job.
C28_NewProject ==
    [][\A shop \in Shops, c \in Approvers, po \in NewPos, cart \in NewCarts :
         (trim(po) # <<>> /\ Usable(cart) # {}) =>
           (SaveCartNewProject(shop, c, po, <<"Acme", Blank>>, <<"Site">>, <<"Deck">>, cart)
              => Created(shop, c, po, <<"Site">>, <<"Deck">>, cart))]_vars

\* ------------------------------------------------- project details, at once
\* Two save-cart calls on project 1 are under way together, each with its own
\* PO number and company name: into a new job (mode existingProject) or into
\* job 1 (mode existingJob, adding or replacing).
DetailsOf ==
    << [poNumber |-> <<Blank, "PO-2">>, companyName |-> <<"Bolt">>],
       [poNumber |-> <<"PO-3">>, companyName |-> <<"Core", Blank>>] >>

DetailsCart == << Line("v2", 1, 20) >>

NextDetails ==
    \/ \E k \in Calls, c \in Approvers :
         BeginSaveCartExistingProject(k, "s1", c, DetailsOf[k].poNumber,
                                      DetailsOf[k].companyName, 1, <<"Roof">>, DetailsCart)
    \/ \E k \in Calls : UpdateDetails(k)
    \/ \E k \in Calls :
         BeginSaveCartAdd(k, "s1", "c1", DetailsOf[k].poNumber, DetailsOf[k].companyName,
                          1, 1, DetailsCart)
    \/ \E k \in Calls : FindLine(k)
    \/ \E k \in Calls : WriteLine(k)
    \/ \E k \in Calls :
         BeginSaveCartReplace(k, "s1", "c1", DetailsOf[k].poNumber,
                              DetailsOf[k].companyName, 1, 1, DetailsCart)
    \/ \E k \in Calls : CommitReplace(k)
    \/ \E k \in Calls : FinishSaveCart(k)

SpecDetails == InitOneProject /\ [][NextDetails]_vars

\* The (poNumber, companyName) pair that project 1 stores, and the pair that
\* call k asks for.
StoredDetails(ps) == { <<r.poNumber, r.companyName>> : r \in { q \in ps : q.id = 1 } }
AskedDetails(k) == <<trim(DetailsOf[k].poNumber), trim(DetailsOf[k].companyName)>>

\* The project.update of call k is written with this step.
WritesDetails(k) ==
    \/ UpdateDetails(k) /\ calls'[k].stage = "done"
    \/ /\ calls[k].stage = "idle" /\ calls'[k].stage \in {"finding", "saving"}
       /\ \/ BeginSaveCartAdd(k, "s1", "c1", DetailsOf[k].poNumber,
                              DetailsOf[k].companyName, 1, 1, DetailsCart)
          \/ BeginSaveCartReplace(k, "s1", "c1", DetailsOf[k].poNumber,
                                  DetailsOf[k].companyName, 1, 1, DetailsCart)

\* C29: a save-cart in mode existingProject or existingJob sets the project's
\* poNumber and companyName to the values of that call, and with two such
\* calls under way together the stored pair is never the PO number of one
\* with the company name of the other: once both have succeeded it is the
\* pair of one of the two calls.
C29_LastWriteWinsDetails ==
    /\ [][\A k \in Calls : WritesDetails(k) => StoredDetails(projects') = {AskedDetails(k)}]_vars
    /\ [](StoredDetails(projects) \subseteq
             { <<<<"PO-1">>, <<"Acme">>>>, AskedDetails(1), AskedDetails(2) })
    /\ []((\A k \in Calls : calls[k].stage = "done")
             => StoredDetails(projects) \subseteq { AskedDetails(1), AskedDetails(2) })

\* Call 1 made the job "Roof" and call 2 added to job 1; call 2 answered last,
\* and the project keeps the PO number and company name of call 1.
C29_Witness ==
    /\ \A k \in Calls : calls[k].stage = "done"
    /\ calls[1].kind = "existingProject" /\ calls[2].kind = "add"
    /\ last.status = 200 /\ last.retJobId = 1
    /\ StoredDetails(projects) = { <<<<"PO-2">>, <<"Bolt">>>> }

\* ------------------------------------------------------------ cascades
\* Project 1 gains a share token, an approval request on its job and an order
\* link; the job is deleted, also by two requests at once and while the order
\* is placed, and anybody of either shop asks for the project to be deleted,
\* with e-mail working, failing or not configured.
DeleteMail == { <<TRUE, FALSE>>, <<TRUE, TRUE>>, <<FALSE, FALSE>> }

NextCascade ==
    \/ ShareProjectApi("s1", "c1", 1, "view")
    \/ SubmitForApproval("s1", "c1", 1, 1, NoId, Working)
    \/ \E j \in JobIds : PlaceOrder(j)
    \/ \E c \in {"c1", "c3"}, j \in JobIds : DeleteJobApi("s1", c, 1, j)
    \/ \E k \in Calls, j \in JobIds : BeginDeleteJob(k, "s1", "c2", 1, j)
    \/ \E k \in Calls : CommitDeleteJob(k)
    \/ \E shop \in Shops, c \in Customers, mail \in DeleteMail :
         DeleteProject(shop, c, 1, mail[1], mail[2])

SpecCascade == InitOneProject /\ [][NextCascade]_vars

\* No JobItem and no OrderLink of job j is left in the next state, nor j.
JobGone(j) ==
    /\ \A r \in jobs' : r.id # j
    /\ \A i \in items' : i.jobId # j
    /\ j \notin orderLinks'

\* Nothing of project p is left in the next state.
ProjectGone(p) ==
    /\ \A r \in projects' : r.id # p
    /\ \A r \in jobs' : r.projectId # p
    /\ \A r \in jobs : r.projectId = p => JobGone(r.id)
    /\ \A m \in members' : m.projectId # p
    /\ \A t \in shareTokens' : t.projectId # p
    /\ \A a \in approvals' : a.projectId # p

OwnerIn(shop, c, p) ==
    \E r \in projects : r.id = p /\ r.shop = shop /\ r.ownerCustomerId = c

\* C30: after a delete-job that succeeds, neither a JobItem nor an OrderLink
\* of that job is left; delete-project by the owner deletes the project
\* whatever becomes of the export e-mail, and then no Job, JobItem, OrderLink,
\* ProjectMember, ProjectShareToken or ApprovalRequest of the project is left;
\* delete-project by anybody else changes nothing.
C30_CascadeDeletion ==
    [][/\ \A k \in Calls :
            (CommitDeleteJob(k) /\ calls'[k].stage = "done") => JobGone(calls[k].job)
       /\ \A c \in {"c1", "c3"}, j \in JobIds :
            (DeleteJobApi("s1", c, 1, j) /\ last'.status = 200) => JobGone(j)
       /\ \A shop \in Shops, c \in Customers, mail \in DeleteMail :
            DeleteProject(shop, c, 1, mail[1], mail[2])
              => IF OwnerIn(shop, c, 1)
                 THEN ProjectGone(1) /\ last'.status = 302
                 ELSE UNCHANGED store /\ last'.status \in {403, 404}]_vars

\* A delete-job request went through, a share token was minted and approval
\* was asked for; then the owner deleted the project, the export e-mail was
\* not sent, and no row of any table is left.
C30_Witness ==
    /\ last.status = 302 /\ last.sent = {}
    /\ \E k \in Calls : calls[k].stage = "done" /\ calls[k].kind = "delete-job"
    /\ nextId.token = 2 /\ now > 1
    /\ projects = {} /\ jobs = {} /\ items = {} /\ orderLinks = {}
    /\ members = {} /\ shareTokens = {} /\ approvals = {}

\* ------------------------------------------------------- copy-job, move-job
\* Two projects: project 1 of shop s1 as in OneProject with the viewer c3, and
\* project 2 of shop s2, which c3 made and nobody joined, without a job.
InitTwoProjects ==
    /\ projects = { [id |-> 1, shop |-> "s1", name |-> <<"Site">>,
                     ownerCustomerId |-> "c1", poNumber |-> <<"PO-1">>,
                     companyName |-> <<"Acme">>],
                    [id |-> 2, shop |-> "s2", name |-> <<"Yard">>,
                     ownerCustomerId |-> "c3", poNumber |-> <<"PO-2">>,
                     companyName |-> <<"Bolt">>] }
    /\ members = { [projectId |-> 1, customerId |-> "c1", role |-> "edit"],
                   [projectId |-> 1, customerId |-> "c2", role |-> "edit"],
                   Viewer,
                   [projectId |-> 2, customerId |-> "c3", role |-> "edit"] }
    /\ jobs = { [id |-> 1, projectId |-> 1, name |-> <<"Deck">>,
                 isLocked |-> FALSE, sortOrder |-> 1] }
    /\ items = { [id |-> 1, jobId |-> 1, variantId |-> "v1", quantity |-> 1,
                  priceSnapshot |-> 10, sortOrder |-> 1] }
    /\ orderLinks = {} /\ shareTokens = {} /\ approvals = {}
    /\ nextId = [project |-> 3, job |-> 2, item |-> 2, token |-> 1]
    /\ now = 1
    /\ last = NoRequest
    /\ everApproved = {}
    /\ calls = NoCalls

\* The project ids a form may carry: the two projects and an id of none.
TargetIds == {1, 2, 3}

\* Job 1 gains a line or a greater quantity, or is locked; members of project
\* 1 ask for a copy of a job of project 1 into any project.
NextCopyJob ==
    \/ \E line \in { Line("v1", 1, 20), Line("v2", 1, 20) } :
         SaveCartExistingJob("s1", "c1", <<"PO-1">>, <<"Acme">>, 1, 1, "add", <<line>>)
    \/ MarkLocked(1)
    \/ PlaceOrder(1)
    \/ \E c \in Customers, j \in JobIds, t \in TargetIds : CopyJobPage("s1", c, 1, j, t)
    \/ \E c \in Customers, j \in JobIds, t \in TargetIds : CopyJobLegacy("s1", c, 1, j, t)

SpecCopyJob == InitTwoProjects /\ [][NextCopyJob]_vars

Goods(rows) == { <<r.variantId, r.quantity, r.priceSnapshot>> : r \in rows }

\* Every row there was is still there, and there is one more job: unlocked, in
\* project t, under a fresh id, holding as many new items as job j has, with
\* the same variants, quantities and price snapshots.
CopiedInto(j, t) ==
    /\ jobs \subseteq jobs' /\ items \subseteq items' /\ orderLinks' = orderLinks
    /\ \E n \in jobs' \ jobs :
          /\ jobs' = jobs \cup {n}
          /\ n.projectId = t /\ ~ n.isLocked /\ n.id \notin orderLinks'
          /\ \A r \in jobs : r.id # n.id
          /\ \A i \in items' \ items : i.jobId = n.id /\ \A r \in items : r.id # i.id
          /\ Cardinality(items' \ items) = Cardinality(ItemsOf(j))
          /\ Goods(items' \ items) = Goods(ItemsOf(j))

\* C31: a copy-job that copies job j into project t leaves j and every item
\* as they were and adds to t one unlocked job under a fresh id whose items
\* have the variants, quantities and price snapshots of j's items, also when
\* j is locked.
C31_CopyLeavesSource ==
    [][\A c \in Customers, j \in JobIds, t \in TargetIds :
         ( /\ \/ CopyJobPage("s1", c, 1, j, t)
              \/ CopyJobLegacy("s1", c, 1, j, t)
           /\ store' # store )
         => CopiedInto(j, t)]_vars

\* Job 1, locked by its order and holding v1 twice at the price 20, was
\* copied into project 2: the copy is unlocked and holds the same line under
\* a new id.
C31_Witness ==
    /\ 1 \in orderLinks
    /\ Goods(ItemsOf(1)) = { <<"v1", 2, 20>> }
    /\ \E n \in jobs : /\ n.id = 2 /\ n.projectId = 2 /\ ~isLocked(n)
                       /\ Goods(ItemsOf(2)) = { <<"v1", 2, 20>> }
    /\ \E i \in items : i.id = 1 /\ i.jobId = 1

\* ---------------------------------------------------------- price snapshots
\* The operations on the two jobs of project 1 that are no save-cart: reorders,
\* save-order-edit, move-job, delete-item and the approval operations.
PriceItemLists == { <<2, 1>>, <<3, 1>>, <<4>> }
PriceJobLists  == { <<2, 1>>, <<1>> }
PriceUpdates ==
    { << Update(1, 2), Update(2, 0 - 1) >>, << Update(3, 2), Update(2, 0) >> }

NextPrice ==
    \/ \E ids \in PriceJobLists : ReorderJobsJson("s1", "c1", 1, ids)
    \/ \E ids \in PriceItemLists : ReorderItemsJson("s1", "c1", 1, 1, ids)
    \/ \E j \in JobIds, u \in PriceUpdates, deleteJob \in BOOLEAN :
         SaveOrderEdit("s1", "c1", 1, j, u, deleteJob)
    \/ \E j \in JobIds, t \in {1, 2} : MoveJobPage("s1", "c1", 1, j, t)
    \/ DeleteItemApi("s1", "c1", 1, 2)
    \/ SubmitForApproval("s1", "c2", 1, 1, NoId, Working)
    \/ Approve("s1", "c1", 1, 1, NoId, Working)
    \/ CancelApprovalRequest("s1", "c2", 1, 1, NoId)
    \/ RejectWithReason("s1", "c1", 1, 1, NoId, Working)

SpecPrice == InitTwoJobs /\ [][NextPrice]_vars

\* Row b is row a but for the field sortOrder, or but for the field quantity.
SameButSortOrder(a, b) == b = [a EXCEPT !.sortOrder = b.sortOrder]
SameButQuantity(a, b)  == b = [a EXCEPT !.quantity = b.quantity]

\* C32: reorders, save-order-edit, move-job, delete-item and the approval
\* operations leave the priceSnapshot of every item that stays as it was; a
\* save-order-edit that keeps the job changes nothing but the quantity of
\* items of the job it names; a reorder changes nothing but sortOrder.
C32_PriceSnapshotFrame ==
    [][/\ \A a \in items, b \in items' : a.id = b.id => b.priceSnapshot = a.priceSnapshot
       /\ \A j \in JobIds, u \in PriceUpdates :
            SaveOrderEdit("s1", "c1", 1, j, u, FALSE)
              => /\ \A a \in items : \E b \in items' :
                       /\ SameButQuantity(a, b)
                       /\ a.jobId # j => b = a
                 /\ Cardinality(items') = Cardinality(items)
                 /\ UNCHANGED <<projects, members, jobs, orderLinks, shareTokens, approvals>>
       /\ \A ids \in PriceItemLists :
            ReorderItemsJson("s1", "c1", 1, 1, ids)
              => /\ \A a \in items : \E b \in items' : SameButSortOrder(a, b)
                 /\ Cardinality(items') = Cardinality(items)
                 /\ UNCHANGED <<projects, members, jobs, orderLinks, shareTokens, approvals>>
       /\ \A ids \in PriceJobLists :
            ReorderJobsJson("s1", "c1", 1, ids)
              => /\ \A a \in jobs : \E b \in jobs' : SameButSortOrder(a, b)
                 /\ Cardinality(jobs') = Cardinality(jobs)
                 /\ UNCHANGED <<projects, members, items, orderLinks, shareTokens, approvals>>
      ]_vars

\* Items were reordered and a quantity of job 2 was edited while job 1 was
\* approved: every item has the price it had.
C32_Witness ==
    /\ \E i \in items : i.id = 1 /\ i.sortOrder = 2 /\ i.priceSnapshot = 10
    /\ \E i \in items : i.id = 3 /\ i.quantity = 2 /\ i.priceSnapshot = 20
    /\ \E a \in approvals : a.jobId = 1 /\ a.approvedAt # NullDate

\* ------------------------------------------------- reorder-items, its reach
\* c3 saves a cart into a new job of project 2 in shop s2; c1 adds a line to
\* job 1; the members of project 1 send reorder-items for project 1 with any
\* job id and any item ids.
ReachLists == { ids \in ListsOver(ItemIdInputs) : ids # <<>> }

NextReach ==
    \/ SaveCartExistingProject("s2", "c3", <<"PO-2">>, <<"Bolt">>, 2, <<"Shed">>,
                               << Line("v1", 1, 10) >>)
    \/ SaveCartExistingJob("s1", "c1", <<"PO-1">>, <<"Acme">>, 1, 1, "add",
                           << Line("v2", 1, 20) >>)
    \/ \E c \in Customers, j \in JobIds, ids \in ReachLists :
         ReorderItemsPage("s1", c, 1, j, ids)
    \/ \E c \in Customers, j \in JobIds, ids \in ReachLists :
         ReorderItemsLegacy("s1", c, 1, j, ids)

SpecReach == InitTwoProjects /\ [][NextReach]_vars

\* The items of job j, when j is a job of project p.
ItemsIn(p, j) == { i \in items : i.jobId = j /\ \E r \in JobsOf(p) : r.id = j }

\* C33: reorder-items for project 1 and job j changes no item but items of
\* job j of project 1.
C33_ReorderItemsReach ==
    [][\A c \in Customers, j \in JobIds, ids \in ReachLists :
         ( \/ ReorderItemsPage("s1", c, 1, j, ids)
           \/ ReorderItemsLegacy("s1", c, 1, j, ids) )
         => \A i \in items \ ItemsIn(1, j) : i \in items']_vars

\* ------------------------------------------- move-job, copy-job: isolation
\* The members of project 1 ask for a job of project 1 to be moved or copied
\* into any project; job 1 gains a line or is locked meanwhile.
NextIsolation ==
    \/ SaveCartExistingJob("s1", "c1", <<"PO-1">>, <<"Acme">>, 1, 1, "add",
                           << Line("v2", 1, 20) >>)
    \/ MarkLocked(1)
    \/ \E c \in Customers, j \in JobIds, t \in TargetIds : MoveJobPage("s1", c, 1, j, t)
    \/ \E c \in Customers, j \in JobIds, t \in TargetIds : MoveJobLegacy("s1", c, 1, j, t)
    \/ \E c \in Customers, j \in JobIds, t \in TargetIds : CopyJobPage("s1", c, 1, j, t)
    \/ \E c \in Customers, j \in JobIds, t \in TargetIds : CopyJobLegacy("s1", c, 1, j, t)

SpecIsolation == InitTwoProjects /\ [][NextIsolation]_vars

\* C34: a move-job or copy-job sent by c in shop s1 puts a job only into a
\* project of shop s1 of which c is the owner or a member.
C34_MoveCopyIsolation ==
    [][\A c \in Customers, j \in JobIds, t \in TargetIds :
         ( \/ MoveJobPage("s1", c, 1, j, t) \/ MoveJobLegacy("s1", c, 1, j, t)
           \/ CopyJobPage("s1", c, 1, j, t) \/ CopyJobLegacy("s1", c, 1, j, t) )
         => \A r \in jobs' \ jobs :
               \E q \in projects : q.id = r.projectId /\ q.shop = "s1" /\ isMember(q, c)]_vars

\* ------------------------------------------------------ create-job, at once
\* Project 1 after its only job was deleted; ids count the rows made from
\* here on.
InitNoJob ==
    /\ projects = { [id |-> 1, shop |-> "s1", name |-> <<"Site">>,
                     ownerCustomerId |-> "c1", poNumber |-> <<"PO-1">>,
                     companyName |-> <<"Acme">>] }
    /\ members = { [projectId |-> 1, customerId |-> "c1", role |-> "edit"],
                   [projectId |-> 1, customerId |-> "c2", role |-> "edit"], Viewer }
    /\ jobs = {} /\ items = {}
    /\ orderLinks = {} /\ shareTokens = {} /\ approvals = {}
    /\ nextId = [project |-> 2, job |-> 1, item |-> 1, token |-> 1]
    /\ now = 1
    /\ last = NoRequest
    /\ everApproved = {}
    /\ calls = NoCalls

RaceNames == { <<"Roof">>, <<"roof", Blank>>, <<"Deck">> }

\* Two create-job requests for project 1 are under way together; the owner
\* deletes the project meanwhile.
NextCreateRace ==
    \/ \E k \in Calls, c \in Customers, name \in RaceNames :
         BeginCreateJob(k, "s1", c, 1, name)
    \/ \E k \in Calls : ReadJobSortOrder(k)
    \/ \E k \in Calls : WriteJob(k)
    \/ DeleteProject("s1", "c1", 1, FALSE, FALSE)

SpecCreateRace == InitNoJob /\ [][NextCreateRace]_vars

\* C36: with create-job requests for one project under way together, no two
\* jobs of the project have names that are equal ignoring case, and no two
\* have the same sortOrder.
C36_CreateJobRace ==
    \A a, b \in jobs :
       (a.id # b.id /\ a.projectId = b.projectId)
         => /\ toLowerCase(a.name) # toLowerCase(b.name)
            /\ a.sortOrder # b.sortOrder

\* --------------------------------------------- approve and cancel, at once
\* Project 1 with approval of job 1 asked for, at a date before the first one
\* of this run.
InitAwaiting ==
    /\ projects = { [id |-> 1, shop |-> "s1", name |-> <<"Site">>,
                     ownerCustomerId |-> "c1", poNumber |-> <<"PO-1">>,
                     companyName |-> <<"Acme">>] }
    /\ members = { [projectId |-> 1, customerId |-> "c1", role |-> "edit"],
                   [projectId |-> 1, customerId |-> "c2", role |-> "edit"], Viewer }
    /\ jobs = { [id |-> 1, projectId |-> 1, name |-> <<"Deck">>,
                 isLocked |-> FALSE, sortOrder |-> 1] }
    /\ items = { [id |-> 1, jobId |-> 1, variantId |-> "v1", quantity |-> 1,
                  priceSnapshot |-> 10, sortOrder |-> 1] }
    /\ orderLinks = {} /\ shareTokens = {}
    /\ approvals = { [projectId |-> 1, jobId |-> 1, itemId |-> NoId,
                      requestedAt |-> 0, approvedAt |-> NullDate,
                      approvedByCustomerId |-> NullCustomer] }
    /\ nextId = [project |-> 2, job |-> 2, item |-> 2, token |-> 1]
    /\ now = 1
    /\ last = NoRequest
    /\ everApproved = {}
    /\ calls = NoCalls

\* Two requests on the request of job 1 are under way together: approve by one
\* of the editors, with e-mail working or failing, or cancel.
NextApproveRace ==
    \/ \E k \in Calls, c \in Approvers, dir \in {Working, SendFails} :
         BeginApprove(k, "s1", c, 1, 1, NoId, dir)
    \/ \E k \in Calls : WriteApprove(k)
    \/ \E k \in Calls, c \in Approvers : BeginCancel(k, "s1", c, 1, 1, NoId)
    \/ \E k \in Calls : WriteCancel(k)

SpecApproveRace == InitAwaiting /\ [][NextApproveRace]_vars

\* Call k is an approve that reported success without alreadyApproved.
HasApproved(k) ==
    calls[k].stage = "done" /\ calls[k].kind = "approve" /\ ~calls[k].alreadyApproved
HasCancelled(k) == calls[k].stage = "done" /\ calls[k].kind = "cancel"

\* C37: of an approve and a cancel-approval-request under way together on one
\* awaiting request only one takes effect, the other is refused by its checks
\* and not by a failed write, and the row of a request whose approval was
\* recorded is never gone.
C37_ApproveCancelRace ==
    /\ \A k, h \in Calls : ~(HasApproved(k) /\ HasCancelled(h))
    /\ \A k \in Calls : calls[k].stage # "failed"
    /\ <<1, 1, NoId>> \in everApproved => RequestAt(1, 1, NoId) # {}

\* C38: of two approve calls under way together on one awaiting request only
\* one writes approvedAt and approvedByCustomerId and sends the notice; the
\* other reports alreadyApproved.
C38_ApproveOnce ==
    \A k, h \in Calls : (HasApproved(k) /\ HasApproved(h)) => k = h

\* ------------------------------------------- approval scopes, what they name
\* Approval is asked for on project 1 with any job id and item id; jobs of
\* project 1 are deleted or moved, and the lines of job 1 are replaced.
ScopeInputs == { <<NoId, NoId>>, <<1, NoId>>, <<1, 1>>, <<2, NoId>>, <<1, 3>> }

NextScopes ==
    \/ \E s \in ScopeInputs : SubmitForApproval("s1", "c2", 1, s[1], s[2], Working)
    \/ \E j \in JobIds : DeleteJobApi("s1", "c1", 1, j)
    \/ \E j \in JobIds, t \in TargetIds : MoveJobPage("s1", "c1", 1, j, t)
    \/ SaveCartExistingJob("s1", "c1", <<"PO-1">>, <<"Acme">>, 1, 1, "replace",
                           << Line("v2", 1, 20) >>)

SpecScopes == InitTwoProjects /\ [][NextScopes]_vars

\* C39: every ApprovalRequest with a jobId names a job of its project, and
\* every one with an itemId names an item of that job.
C39_ScopesExist ==
    \A a \in approvals :
       /\ a.jobId # NoId => \E r \in jobs : r.id = a.jobId /\ r.projectId = a.projectId
       /\ a.itemId # NoId => \E r \in items : r.id = a.itemId /\ r.jobId = a.jobId

\* ------------------------------------------------- sort order, one at a time
\* The owners save carts, create, copy, move and delete jobs, delete lines and
\* reorder, one request after the other.
StrictJobLists == { <<1>>, <<2>>, <<2, 1>> }
StrictItemLists == { <<2, 1>>, <<2>> }

NextStrict ==
    \/ SaveCartExistingProject("s2", "c3", <<"PO-2">>, <<"Bolt">>, 2, <<"Shed">>,
                               << Line("v1", 1, 10) >>)
    \/ SaveCartExistingJob("s1", "c1", <<"PO-1">>, <<"Acme">>, 1, 1, "add",
                           << Line("v2", 1, 20) >>)
    \/ CreateJobApi("s1", "c1", 1, <<"Roof">>)
    \/ \E j \in JobIds, t \in TargetIds : CopyJobPage("s1", "c1", 1, j, t)
    \/ \E j \in JobIds, t \in TargetIds : MoveJobPage("s1", "c1", 1, j, t)
    \/ \E j \in JobIds : DeleteJobApi("s1", "c1", 1, j)
    \/ \E i \in ItemIds : DeleteItemApi("s1", "c1", 1, i)
    \/ \E ids \in StrictJobLists : ReorderJobsJson("s1", "c1", 1, ids)
    \/ \E ids \in StrictItemLists : ReorderItemsJson("s1", "c1", 1, 1, ids)

SpecStrict == InitTwoProjects /\ [][NextStrict]_vars

\* C40: the jobs of one project have pairwise distinct sortOrder values, and
\* so have the items of one job.
C40_StrictSortOrder ==
    /\ \A a, b \in jobs :
         (a.projectId = b.projectId /\ a.sortOrder = b.sortOrder) => a.id = b.id
    /\ \A a, b \in items :
         (a.jobId = b.jobId /\ a.sortOrder = b.sortOrder) => a.id = b.id

\* ------------------------------------------------------------ whole program
\* Every request of the model, from the empty store: the first save-cart
\* (mode newProject) makes the project the other requests work on.
Next ==
    \/ \E shop \in Shops, c \in Customers, po \in PoInputs, company \in CompanyInputs,
          jobName \in JobNameInputs, cart \in CartInputs :
         SaveCartNewProject(shop, c, po, company, <<"Site">>, jobName, cart)
    \/ NextCart
    \/ NextCopy
    \/ NextMerge
    \/ NextReplace
    \/ NextChecks
    \/ NextFailure
    \/ NextCleanup
    \/ NextSubmit
    \/ NextUpsert
    \/ NextApprovers
    \/ NextCancel
    \/ NextShare
    \/ NextAddRace
    \/ NextAppend
    \/ NextNewProject
    \/ NextDetails
    \/ NextCascade
    \/ NextCopyJob
    \/ NextPrice
    \/ NextReach
    \/ NextIsolation
    \/ NextCreateRace
    \/ NextApproveRace
    \/ NextScopes
    \/ NextStrict
    \/ NextApproval
    \/ NextAccess
    \/ NextMembers
    \/ NextNames
    \/ NextReorder
    \/ NextRace

Spec == Init /\ [][Next]_vars

====
